---- MODULE Spec2Model ----
(***************************************************************************)
(* A model of the PL/0 toolchain of rsiemens/pl0: the lexer and the        *)
(* recursive descent parser (pl0/parser.py), the code generator            *)
(* (pl0/generators/codegen.py) and the stack machine (pl0/vm.py).          *)
(*                                                                         *)
(* One behaviour of the model is one run of the command line driver        *)
(* (pl0/__main__.py): a source text is parsed, the tree is compiled, a VM  *)
(* is built on the instruction array and interpret() runs it, one          *)
(* instruction per step.  Python exceptions are modelled as a final        *)
(* status that names the exception.                                        *)
(***************************************************************************)
EXTENDS Integers, Sequences, FiniteSets, TLC

VARIABLES
    input,      \* what the run was started on (a description; never changes)
    status,     \* position of the driver: see Statuses
    ast,        \* the list of nodes Parser.parse returned
    code,       \* VM.code: the instruction array
    program,    \* VM.program
    base,       \* VM.base
    topstack,   \* VM.topstack
    datastore,  \* VM.datastore, a list of stack_size integers
    debug,      \* VM.debug
    out,        \* the values written to standard output by OPR WRITE
    stderr,     \* the diagnostics Parser.parse wrote to sys.stderr
    lexer,      \* a Lexer whose methods are called one at a time
    invoked,    \* the method of lexer called last ("" before the first call)
    returned,   \* what that call returned: a character or a token
    last,       \* history: index of the instruction executed last (-1: none)
    frames,     \* history: one record per activation that CAL created and
                \* RETURN has not yet removed
    stored,     \* history: per datastore slot, the value the last STO put there
    meta,       \* history: the procedures of the compiled program
    seen,       \* history: per instruction, topstack when it was last fetched
    written,    \* history: the words OPR WRITE printed and left on the stack,
                \* in the frames that have not returned
    python,     \* the text PythonTranspiler.generate_code returned
    run,        \* how many times interpret() was called on the VM object
    previous    \* the status and the output of the previous call of interpret()

vars == <<input, status, ast, code, program, base, topstack, datastore,
          debug, out, stderr, lexer, invoked, returned, last, frames, stored,
          meta, seen, written, python, run, previous>>

\* the variables of the lexer that is driven call by call
lexvars == <<lexer, invoked, returned>>
\* the output of the transpiler and the record of earlier calls of interpret()
auxvars == <<python, run, previous>>

-----------------------------------------------------------------------------
(* Bounds of the model *)

\* VM(code, stack_size): the size of the data store of the modelled machine.
StackSize == 24

\* The largest operand of the generated arithmetic and comparison programs.
MaxConst == 2

-----------------------------------------------------------------------------
(* pl0/constants.py *)

OP_CODE == {"LIT", "OPR", "LOD", "STO", "CAL", "INT", "JMP", "JPC"}

RETURN == 0
NEGATE == 1
ADD == 2
SUB == 3
MULT == 4
DIV == 5
ODD == 6
EQUAL == 8
NOT_EQUAL == 9
LESS == 10
GREATER_EQUAL == 11
GREATER == 12
LESS_EQUAL == 13
WRITE == 14
DEBUG == 15

OPERATION == {RETURN, NEGATE, ADD, SUB, MULT, DIV, ODD, EQUAL, NOT_EQUAL,
              LESS, GREATER_EQUAL, GREATER, LESS_EQUAL, WRITE, DEBUG}

Ins(op, l, v) == [op |-> op, l |-> l, v |-> v]

-----------------------------------------------------------------------------
(* pl0/vm.py *)

\* division that rounds toward zero
truncdiv(a, b) ==
    IF (a >= 0) = (b > 0) THEN (IF a >= 0 THEN a ELSE -a) \div (IF b > 0 THEN b ELSE -b)
    ELSE -((IF a >= 0 THEN a ELSE -a) \div (IF b > 0 THEN b ELSE -b))

\* operator.floordiv on ints, b # 0: rounds toward negative infinity.
floordiv(a, b) == IF b > 0 THEN a \div b ELSE (-a) \div (-b)

\* Python's bool is an int: True == 1, False == 0.
Bool(b) == IF b THEN 1 ELSE 0

OPERATION_MAP_KEYS == {ADD, SUB, MULT, DIV, EQUAL, NOT_EQUAL, LESS,
                       LESS_EQUAL, GREATER, GREATER_EQUAL}

OPERATION_MAP(operation, lhs, rhs) ==
    CASE operation = ADD -> lhs + rhs
      [] operation = SUB -> lhs - rhs
      [] operation = MULT -> lhs * rhs
      [] operation = DIV -> floordiv(lhs, rhs)
      [] operation = EQUAL -> Bool(lhs = rhs)
      [] operation = NOT_EQUAL -> Bool(lhs # rhs)
      [] operation = LESS -> Bool(lhs < rhs)
      [] operation = LESS_EQUAL -> Bool(lhs <= rhs)
      [] operation = GREATER -> Bool(lhs > rhs)
      [] operation = GREATER_EQUAL -> Bool(lhs >= rhs)

\* A Python list of StackSize items accepts the indices -StackSize .. StackSize-1
\* (a negative index counts from the end); any other index raises IndexError.
InRange(i) == -StackSize <= i /\ i < StackSize
Idx(i) == IF i < 0 THEN i + StackSize ELSE i

\* The machine as a value: the registers, the data store, the output so far and
\* the exception that has been raised ("" when none).  The operators below are
\* the methods of VM; each leaves a machine that has raised unchanged.
Machine == [program |-> program, base |-> base, topstack |-> topstack,
            datastore |-> datastore, debug |-> debug, out |-> out, err |-> ""]

Raise(m, e) == [m EXCEPT !.err = e]

\* self.datastore[i] = value
setitem(m, i, value) ==
    IF m.err # "" THEN m
    ELSE IF ~InRange(i) THEN Raise(m, "IndexError")
    ELSE [m EXCEPT !.datastore[Idx(i)] = value]

\* VM.find_base: follow `level` static links from the current base.
RECURSIVE find_base_from(_, _, _)
find_base_from(m, b, level) ==
    IF level <= 0 THEN [ok |-> TRUE, base |-> b]
    ELSE IF ~InRange(b) THEN [ok |-> FALSE, base |-> b]
    ELSE find_base_from(m, m.datastore[Idx(b)], level - 1)

find_base(m, level) == find_base_from(m, m.base, level)

\* VM.pop: the value read, and the machine with topstack decremented.
pop(m) ==
    IF m.err # "" THEN [m |-> m, value |-> 0]
    ELSE IF ~InRange(m.topstack) THEN [m |-> Raise(m, "IndexError"), value |-> 0]
    ELSE [m |-> [m EXCEPT !.topstack = m.topstack - 1],
          value |-> m.datastore[Idx(m.topstack)]]

\* VM.push: topstack is incremented before the store is attempted.
push(m, value) ==
    IF m.err # "" THEN m
    ELSE setitem([m EXCEPT !.topstack = m.topstack + 1], m.topstack + 1, value)

\* the RETURN branch with the stack pointer left on the callee's first word
op_return_high(m) ==
    LET t == m.base - 1
        m1 == [m EXCEPT !.topstack = m.base]
    IN  IF ~InRange(t + 3) THEN Raise(m1, "IndexError")
        ELSE LET m2 == [m1 EXCEPT !.program = m.datastore[Idx(t + 3)]]
             IN  IF ~InRange(t + 2) THEN Raise(m2, "IndexError")
                 ELSE [m2 EXCEPT !.base = m.datastore[Idx(t + 2)]]

\* VM.perform_operation, the RETURN branch.
op_return(m) ==
    LET t == m.base - 1
        m1 == [m EXCEPT !.topstack = t]
    IN  IF ~InRange(t + 3) THEN Raise(m1, "IndexError")
        ELSE LET m2 == [m1 EXCEPT !.program = m.datastore[Idx(t + 3)]]
             IN  IF ~InRange(t + 2) THEN Raise(m2, "IndexError")
                 ELSE [m2 EXCEPT !.base = m.datastore[Idx(t + 2)]]

\* the OPERATION_MAP branch with a division by zero that yields 0
op_binary_total(m, operation) ==
    LET r == pop(m)
        l == pop(r.m)
    IN  IF l.m.err # "" THEN l.m
        ELSE IF operation = DIV /\ r.value = 0 THEN push(l.m, 0)
        ELSE push(l.m, OPERATION_MAP(operation, l.value, r.value))

\* VM.perform_operation, the OPERATION_MAP branch.
op_binary(m, operation) ==
    LET r == pop(m)
        l == pop(r.m)
    IN  IF l.m.err # "" THEN l.m
        ELSE IF operation = DIV /\ r.value = 0
             THEN Raise(l.m, "ZeroDivisionError")
        ELSE push(l.m, OPERATION_MAP(operation, l.value, r.value))

\* VM.perform_operation, the NEGATE branch (reads, then writes, the top slot).
op_negate(m) ==
    IF ~InRange(m.topstack) THEN Raise(m, "IndexError")
    ELSE setitem(m, m.topstack, -m.datastore[Idx(m.topstack)])

\* VM.perform_operation, the ODD branch.
op_odd(m) == LET p == pop(m) IN push(p.m, p.value % 2)

\* the WRITE branch with the printed word popped
op_write_pop(m) ==
    IF ~InRange(m.topstack) THEN Raise(m, "IndexError")
    ELSE [m EXCEPT !.out = Append(m.out, m.datastore[Idx(m.topstack)]),
                   !.topstack = m.topstack - 1]

\* VM.perform_operation, the WRITE branch.
op_write(m) ==
    IF ~InRange(m.topstack) THEN Raise(m, "IndexError")
    ELSE [m EXCEPT !.out = Append(m.out, m.datastore[Idx(m.topstack)])]

\* VM.perform_operation, the DEBUG branch.
op_debug(m) == [m EXCEPT !.debug = TRUE]

\* VM.perform_operation: an operation that no branch names changes nothing.
perform_operation(m, operation) ==
    IF operation = RETURN THEN op_return(m)
    ELSE IF operation \in OPERATION_MAP_KEYS THEN op_binary(m, operation)
    ELSE IF operation = NEGATE THEN op_negate(m)
    ELSE IF operation = ODD THEN op_odd(m)
    ELSE IF operation = WRITE THEN op_write(m)
    ELSE IF operation = DEBUG THEN op_debug(m)
    ELSE m

\* VM.interpret, the LOD branch.
exec_LOD(m, level, value) ==
    LET b == find_base(m, level)
    IN  IF ~b.ok \/ ~InRange(b.base + value) THEN Raise(m, "IndexError")
        ELSE push(m, m.datastore[Idx(b.base + value)])

\* the STO branch with the stored word left on the stack
exec_STO_keep(m, level, value) ==
    LET b == find_base(m, level)
    IN  IF ~b.ok \/ ~InRange(m.topstack) THEN Raise(m, "IndexError")
        ELSE setitem(m, b.base + value, m.datastore[Idx(m.topstack)])

\* VM.interpret, the STO branch: find_base, then pop, then the store.
exec_STO(m, level, value) ==
    LET b == find_base(m, level)
    IN  IF ~b.ok THEN Raise(m, "IndexError")
        ELSE LET p == pop(m) IN setitem(p.m, b.base + value, p.value)

\* the CAL branch with the dynamic link stored where the static link belongs
exec_CAL_dynamic(m, level, value) ==
    LET m1 == setitem(m, m.topstack + 1, m.base)
        m2 == setitem(m1, m.topstack + 2, m.base)
        m3 == setitem(m2, m.topstack + 3, m.program)
    IN  IF m3.err # "" THEN m3
        ELSE [m3 EXCEPT !.base = m.topstack + 1, !.program = value]

\* the CAL branch with the address of the CAL itself stored as return address
exec_CAL_return_to_call(m, level, value) ==
    LET b == find_base(m, level)
    IN  IF ~b.ok THEN Raise(m, "IndexError")
        ELSE LET m1 == setitem(m, m.topstack + 1, b.base)
                 m2 == setitem(m1, m.topstack + 2, m.base)
                 m3 == setitem(m2, m.topstack + 3, m.program - 1)
             IN  IF m3.err # "" THEN m3
                 ELSE [m3 EXCEPT !.base = m.topstack + 1, !.program = value]

\* VM.interpret, the CAL branch: three stores above topstack (each may raise and
\* leaves the earlier ones done), then base and program.
exec_CAL(m, level, value) ==
    LET b == find_base(m, level)
    IN  IF ~b.ok THEN Raise(m, "IndexError")
        ELSE LET m1 == setitem(m, m.topstack + 1, b.base)
                 m2 == setitem(m1, m.topstack + 2, m.base)
                 m3 == setitem(m2, m.topstack + 3, m.program)
             IN  IF m3.err # "" THEN m3
                 ELSE [m3 EXCEPT !.base = m.topstack + 1, !.program = value]

\* VM.interpret, the INT branch.
exec_INT(m, value) == [m EXCEPT !.topstack = m.topstack + value]

\* VM.interpret, the JMP branch.
exec_JMP(m, value) == [m EXCEPT !.program = value]

\* VM.interpret, the JPC branch.
exec_JPC(m, value) ==
    IF ~InRange(m.topstack) THEN Raise(m, "IndexError")
    ELSE LET m1 == IF m.datastore[Idx(m.topstack)] = 0
                   THEN [m EXCEPT !.program = value] ELSE m
         IN  [m1 EXCEPT !.topstack = m.topstack - 1]

-----------------------------------------------------------------------------
(* pl0/generators/codegen.py *)

\* A dict as a function from its keys; d[k] = v writes or overwrites one key.
EmptyDict == [k \in {} |-> 0]
DictSet(d, k, v) == [n \in DOMAIN d \cup {k} |-> IF n = k THEN v ELSE d[n]]

\* Parser.statement returns None for the empty statement: the node NoneNode
\* stands for it.  A node is a record with a "type" field otherwise.
NoneNode == [type |-> "None"]

\* The generator as a value: Generator.code, Generator.scope (the maps of the
\* ChainMap, innermost first), the exception raised ("" when none) and, as
\* history only, the code range of every procedure compiled so far.
NewGenerator == [code |-> <<>>, scope |-> <<EmptyDict>>, err |-> "", procs |-> <<>>]

GenRaise(g, e) == IF g.err # "" THEN g ELSE [g EXCEPT !.err = e]

\* Generator.generate: append one instruction (its index is the old length).
generate(g, instruction, level, value) ==
    IF g.err # "" THEN g
    ELSE [g EXCEPT !.code = Append(g.code, Ins(instruction, level, value))]

\* self.scope[name] = binding: a ChainMap writes to its first map.
scope_set(g, name, binding) ==
    IF g.err # "" THEN g
    ELSE [g EXCEPT !.scope[1] = DictSet(g.scope[1], name, binding)]

\* self.scope[name]: the first map of the chain that has the key.
RECURSIVE chain_get(_, _, _)
chain_get(maps, i, name) ==
    IF i > Len(maps) THEN [found |-> FALSE, binding |-> EmptyDict]
    ELSE IF name \in DOMAIN maps[i] THEN [found |-> TRUE, binding |-> maps[i][name]]
    ELSE chain_get(maps, i + 1, name)

scope_get(g, name) == chain_get(g.scope, 1, name)

\* len(self.scope.maps) - 1
cur_level(g) == Len(g.scope) - 1

\* Generator.declaration_count: the Var bindings of the innermost map.
declaration_count(g) ==
    Cardinality({n \in DOMAIN g.scope[1] : g.scope[1][n].type = "Var"})

\* Generator.should_fixup
should_fixup(node) == node.type \notin {"Const", "Var", "Procedure"}

\* fixup with the INT emitted and the JMP left as it was
fixup_unpatched(g, jmp_idx) ==
    IF g.err # "" THEN g
    ELSE generate(g, "INT", 0, declaration_count(g) + 3)

\* fixup that emits the INT twice
fixup_twice(g, jmp_idx) ==
    IF g.err # "" THEN g
    ELSE generate(generate([g EXCEPT !.code[jmp_idx + 1].v = Len(g.code)],
                           "INT", 0, declaration_count(g) + 3),
                  "INT", 0, declaration_count(g) + 3)
\* Generator.fixup: patch the JMP at jmp_idx to the next index and emit INT.
fixup(g, jmp_idx) ==
    IF g.err # "" THEN g
    ELSE generate([g EXCEPT !.code[jmp_idx + 1].v = Len(g.code)],
                  "INT", 0, declaration_count(g) + 3)

push_scope(g) == IF g.err # "" THEN g ELSE [g EXCEPT !.scope = <<EmptyDict>> \o g.scope]
pop_scope(g) == IF g.err # "" THEN g ELSE [g EXCEPT !.scope = Tail(g.scope)]

visit_const(node, g) ==
    scope_set(g, node.name, [type |-> node.type, value |-> node.value])

visit_var(node, g) ==
    scope_set(g, node.name, [type |-> node.type, level |-> cur_level(g),
                             offset |-> declaration_count(g) + 3])

\* the loop over node["parameters"] in visit_procedure
RECURSIVE bind_parameters(_, _, _)
bind_parameters(parameters, i, g) ==
    IF i > Len(parameters) THEN g
    ELSE bind_parameters(parameters, i + 1,
            scope_set(g, parameters[i].name,
                      [type |-> parameters[i].type, level |-> cur_level(g),
                       offset |-> -i]))

\* the operations with LEQ compiled as the transpiler writes it, >=
BinaryOperation_geq(operator) ==
    CASE operator = "PLUS" -> ADD
      [] operator = "MINUS" -> SUB
      [] operator = "TIMES" -> MULT
      [] operator = "SLASH" -> DIV
      [] operator = "EQL" -> EQUAL
      [] operator = "NEQ" -> NOT_EQUAL
      [] operator = "LESS" -> LESS
      [] operator = "GEQ" -> GREATER_EQUAL
      [] operator = "GTR" -> GREATER
      [] operator = "LEQ" -> GREATER_EQUAL

\* the Binary operators visit_binary knows, and the operation each emits
BinaryOperation(operator) ==
    CASE operator = "PLUS" -> ADD
      [] operator = "MINUS" -> SUB
      [] operator = "TIMES" -> MULT
      [] operator = "SLASH" -> DIV
      [] operator = "EQL" -> EQUAL
      [] operator = "NEQ" -> NOT_EQUAL
      [] operator = "LESS" -> LESS
      [] operator = "GEQ" -> GREATER_EQUAL
      [] operator = "GTR" -> GREATER
      [] operator = "LEQ" -> LESS_EQUAL

BinaryOperators == {"PLUS", "MINUS", "TIMES", "SLASH", "EQL", "NEQ", "LESS",
                    "GEQ", "GTR", "LEQ"}

RECURSIVE visit(_, _)
RECURSIVE visit_seq(_, _, _)
RECURSIVE visit_blocks(_, _, _, _, _)

\* for x in nodes[i:]: self.visit(x)
visit_seq(nodes, i, g) ==
    IF i > Len(nodes) \/ g.err # "" THEN g
    ELSE visit_seq(nodes, i + 1, visit(nodes[i], g))

Reverse(s) == [i \in 1..Len(s) |-> s[Len(s) + 1 - i]]

\* the loop over node["blocks"] in visit_procedure: every block that is not a
\* declaration is fixed up, and the address is written into the procedure's
\* binding, which lives in the enclosing map.
visit_blocks(blocks, i, jmp_idx, name, g) ==
    IF i > Len(blocks) \/ g.err # "" THEN g
    ELSE LET g1 == IF should_fixup(blocks[i])
                   THEN LET f == fixup(g, jmp_idx)
                        IN  [f EXCEPT !.scope[2][name] =
                               [type |-> @.type, level |-> @.level,
                                address |-> f.code[jmp_idx + 1].v]]
                   ELSE g
         IN  visit_blocks(blocks, i + 1, jmp_idx, name, visit(blocks[i], g1))

visit_procedure(node, g) ==
    LET g1 == scope_set(g, node.name, [type |-> node.type, level |-> cur_level(g)])
        g2 == generate(push_scope(g1), "JMP", 0, 0)
        jmp_idx == Len(g2.code) - 1
    IN  IF "parameters" \notin DOMAIN node THEN GenRaise(g2, "KeyError")
        ELSE LET g3 == bind_parameters(node.parameters, 1, g2)
                 g4 == visit_blocks(node.blocks, 1, jmp_idx, node.name, g3)
                 g5 == pop_scope(generate(g4, "OPR", 0, RETURN))
             IN  IF g5.err # "" THEN g5
                 ELSE [g5 EXCEPT !.procs = Append(@,
                          [jmp |-> jmp_idx, last |-> Len(g5.code) - 1,
                           level |-> cur_level(g) + 1,
                           nparams |-> Len(node.parameters)])]

visit_assignment(node, g) ==
    LET var == scope_get(g, node.name)
    IN  IF ~var.found THEN GenRaise(g, "KeyError")
        ELSE LET g1 == visit(node.value, g)
             IN  IF {"level", "offset"} \subseteq DOMAIN var.binding
                 THEN generate(g1, "STO", cur_level(g) - var.binding.level,
                               var.binding.offset)
                 ELSE GenRaise(g1, "KeyError")

\* one DET per argument: OP_CODE has no attribute DET
RECURSIVE emit_det(_, _, _)
emit_det(arguments, i, g) ==
    IF i > Len(arguments) \/ g.err # "" THEN g
    ELSE emit_det(arguments, i + 1, GenRaise(g, "AttributeError"))

visit_call(node, g) ==
    IF "arguments" \notin DOMAIN node THEN GenRaise(g, "KeyError")
    ELSE LET g1 == visit_seq(Reverse(node.arguments), 1, g)
             procedure == scope_get(g1, node.name)
         IN  IF g1.err # "" THEN g1
             ELSE IF ~procedure.found THEN GenRaise(g1, "KeyError")
             ELSE IF ~({"level", "address"} \subseteq DOMAIN procedure.binding)
                  THEN GenRaise(g1, "KeyError")
             ELSE emit_det(node.arguments, 1,
                     generate(g1, "CAL", cur_level(g1) - procedure.binding.level,
                              procedure.binding.address))

visit_block(node, g) == visit_seq(node.statements, 1, g)

visit_if(node, g) ==
    LET g1 == generate(visit(node.condition, g), "JPC", 0, 0)
        jpc_idx == Len(g1.code) - 1
        g2 == visit(node.body, g1)
    IN  IF g2.err # "" THEN g2
        ELSE [g2 EXCEPT !.code[jpc_idx + 1].v = Len(g2.code)]

visit_loop_late(node, g) ==
    LET cond_idx == Len(g.code)
        g1 == generate(visit(node.condition, g), "JPC", 0, 0)
        jpc_idx == Len(g1.code) - 1
        g2 == generate(visit(node.body, g1), "JMP", 0, cond_idx + 1)
    IN  IF g2.err # "" THEN g2
        ELSE [g2 EXCEPT !.code[jpc_idx + 1].v = Len(g2.code)]

visit_loop(node, g) ==
    LET cond_idx == Len(g.code)
        g1 == generate(visit(node.condition, g), "JPC", 0, 0)
        jpc_idx == Len(g1.code) - 1
        g2 == generate(visit(node.body, g1), "JMP", 0, cond_idx)
    IN  IF g2.err # "" THEN g2
        ELSE [g2 EXCEPT !.code[jpc_idx + 1].v = Len(g2.code)]

visit_output(node, g) == generate(visit(node.value, g), "OPR", 0, WRITE)

visit_debug(node, g) == generate(g, "OPR", 0, DEBUG)

visit_odd(node, g) == generate(visit(node.expression, g), "OPR", 0, ODD)

visit_binary(node, g) ==
    LET g1 == visit(node.right, visit(node.left, g))
    IN  IF node.operator \in BinaryOperators
        THEN generate(g1, "OPR", 0, BinaryOperation(node.operator))
        ELSE g1

visit_unary(node, g) == generate(visit(node.right, g), "OPR", 0, NEGATE)

visit_identifier(node, g) ==
    LET referenced == scope_get(g, node.name)
    IN  IF ~referenced.found THEN GenRaise(g, "KeyError")
        ELSE IF referenced.binding.type = "Const"
             THEN generate(g, "LIT", 0, referenced.binding.value)
        ELSE IF referenced.binding.type = "Var"
             THEN generate(g, "LOD", cur_level(g) - referenced.binding.level,
                           referenced.binding.offset)
        ELSE g

visit_number(node, g) == generate(g, "LIT", 0, node.value)

visit_grouping(node, g) == visit(node.expression, g)

\* Visitor.visit: dispatch on the node's type; None has no type.
visit(node, g) ==
    IF g.err # "" THEN g
    ELSE CASE node.type = "Const" -> visit_const(node, g)
           [] node.type = "Var" -> visit_var(node, g)
           [] node.type = "Procedure" -> visit_procedure(node, g)
           [] node.type = "Assignment" -> visit_assignment(node, g)
           [] node.type = "Call" -> visit_call(node, g)
           [] node.type = "Block" -> visit_block(node, g)
           [] node.type = "If" -> visit_if(node, g)
           [] node.type = "Loop" -> visit_loop(node, g)
           [] node.type = "Output" -> visit_output(node, g)
           [] node.type = "Debug" -> visit_debug(node, g)
           [] node.type = "Odd" -> visit_odd(node, g)
           [] node.type = "Binary" -> visit_binary(node, g)
           [] node.type = "Unary" -> visit_unary(node, g)
           [] node.type = "Identifier" -> visit_identifier(node, g)
           [] node.type = "Number" -> visit_number(node, g)
           [] node.type = "Grouping" -> visit_grouping(node, g)
           [] OTHER -> GenRaise(g, "TypeError")

\* the loop of Generator.generate_code over the top-level nodes
RECURSIVE visit_top(_, _, _)
visit_top(nodes, i, g) ==
    IF i > Len(nodes) \/ g.err # "" THEN g
    ELSE visit_top(nodes, i + 1,
            visit(nodes[i], IF should_fixup(nodes[i]) THEN fixup(g, 0) ELSE g))

\* Generator.generate_code
generate_code(tree) ==
    generate(visit_top(tree, 1, generate(NewGenerator, "JMP", 0, 0)),
             "OPR", 0, RETURN)

-----------------------------------------------------------------------------
(* pl0/parser.py: Lexer *)

\* A text is a string; text[i] is SubSeq(text, i, i), a string of one character.
ascii_lowercase == <<"a", "b", "c", "d", "e", "f", "g", "h", "i", "j", "k", "l", "m",
                     "n", "o", "p", "q", "r", "s", "t", "u", "v", "w", "x", "y", "z">>
ascii_uppercase == <<"A", "B", "C", "D", "E", "F", "G", "H", "I", "J", "K", "L", "M",
                     "N", "O", "P", "Q", "R", "S", "T", "U", "V", "W", "X", "Y", "Z">>
digit_chars == <<"0", "1", "2", "3", "4", "5", "6", "7", "8", "9">>

Range(s) == {s[i] : i \in DOMAIN s}
ascii_letters == Range(ascii_lowercase) \cup Range(ascii_uppercase)
digits == Range(digit_chars)
whitespace == {" ", "\t", "\n"}

\* str.upper on one character
upper(c) ==
    IF c \in Range(ascii_lowercase)
    THEN ascii_uppercase[CHOOSE i \in DOMAIN ascii_lowercase : ascii_lowercase[i] = c]
    ELSE c

\* int() of one digit
digit_value(c) == (CHOOSE i \in DOMAIN digit_chars : digit_chars[i] = c) - 1

\* the sentinel "\0" that get_char and peek_next return past the end
NUL == "NUL"

\* the value of a token that carries none (None)
None == <<>>

KEYWORDS ==
    ("BEGIN" :> "BEGIN") @@ ("CALL" :> "CALL") @@ ("CONST" :> "CONST") @@
    ("DO" :> "DO") @@ ("END" :> "END") @@ ("IF" :> "IF") @@ ("ODD" :> "ODD") @@
    ("PROCEDURE" :> "PROC") @@ ("THEN" :> "THEN") @@ ("VAR" :> "VAR") @@
    ("WHILE" :> "WHILE") @@ ("WRITE" :> "WRITE") @@ ("DEBUG" :> "DEBUG")

Token(symbol, value, lx) ==
    [symbol |-> symbol, value |-> value, line |-> lx.line, column |-> lx.column]

\* Lexer.__init__
Lexer(text) == [input |-> text, cursor |-> -1, line |-> 1, column |-> 0]

\* Lexer.get_char: the character read and the lexer advanced by one
\* Lexer.get_char that stays on the last character once the end is reached
get_char_bounded(lx) ==
    LET lx1 == IF lx.cursor + 1 < Len(lx.input)
               THEN [lx EXCEPT !.cursor = lx.cursor + 1, !.column = lx.column + 1]
               ELSE lx
    IN  [lexer |-> lx1,
         char |-> IF lx.cursor + 1 < Len(lx.input)
                  THEN SubSeq(lx.input, lx1.cursor + 1, lx1.cursor + 1) ELSE NUL]
get_char(lx) ==
    LET lx1 == [lx EXCEPT !.cursor = lx.cursor + 1, !.column = lx.column + 1]
    IN  [lexer |-> lx1,
         char |-> IF lx1.cursor < Len(lx.input)
                  THEN SubSeq(lx.input, lx1.cursor + 1, lx1.cursor + 1) ELSE NUL]

\* Lexer.peek_next
peek_next(lx) ==
    IF lx.cursor + 1 < Len(lx.input)
    THEN SubSeq(lx.input, lx.cursor + 2, lx.cursor + 2) ELSE NUL

\* the loop of get_token that skips blanks, tabs and newlines
RECURSIVE skip_whitespace(_)
skip_whitespace(r) ==
    IF r.char \in whitespace
    THEN skip_whitespace(get_char(
            IF r.char = "\n" THEN [r.lexer EXCEPT !.line = @ + 1, !.column = 0]
            ELSE r.lexer))
    ELSE r

\* the loop that collects the letters and digits of a word (and its upper case)
RECURSIVE lex_word(_, _, _)
lex_word(lx, word, up) ==
    IF peek_next(lx) \in ascii_letters \cup digits
    THEN LET r == get_char(lx) IN lex_word(r.lexer, word \o r.char, up \o upper(r.char))
    ELSE [lexer |-> lx, word |-> word, up |-> up]

\* the loop that collects the digits of a number; int(num) is kept as it grows
RECURSIVE lex_number(_, _)
lex_number(lx, num) ==
    IF peek_next(lx) \in digits
    THEN LET r == get_char(lx) IN lex_number(r.lexer, num * 10 + digit_value(r.char))
    ELSE [lexer |-> lx, num |-> num]

Single == [c \in {"+", "-", "*", "/", "(", ")", "=", ",", ".", ";"} |->
             CASE c = "+" -> "PLUS" [] c = "-" -> "MINUS" [] c = "*" -> "TIMES"
               [] c = "/" -> "SLASH" [] c = "(" -> "LPAREN" [] c = ")" -> "RPAREN"
               [] c = "=" -> "EQL" [] c = "," -> "COMMA" [] c = "." -> "PERIOD"
               [] c = ";" -> "SEMICOLON"]

\* Lexer.get_token, after the blanks: the token that starts with char, and the
\* lexer after it
scan_token(lx, char) ==
    LET word_token(w) ==
            [lexer |-> w.lexer,
             token |-> IF w.up \in DOMAIN KEYWORDS
                       THEN Token(KEYWORDS[w.up], None, w.lexer)
                       ELSE Token("IDENT", w.word, w.lexer)]
        number_token(n) == [lexer |-> n.lexer, token |-> Token("NUMBER", n.num, n.lexer)]
        becomes_token(c) ==
            [lexer |-> c.lexer,
             token |-> IF c.char = "="
                       THEN Token(IF char = ":" THEN "BECOMES" ELSE "NEQ", None, c.lexer)
                       ELSE Token("NULL", None, c.lexer)]
        or_equal_token(c) ==
            [lexer |-> c.lexer,
             token |-> Token(IF char = "<" THEN "LEQ" ELSE "GEQ", None, c.lexer)]
    IN  IF char \in ascii_letters
        THEN word_token(lex_word(lx, char, upper(char)))
        ELSE IF char \in digits
        THEN number_token(lex_number(lx, digit_value(char)))
        ELSE IF char \in {":", "!"}
        THEN becomes_token(get_char(lx))
        ELSE IF char \in DOMAIN Single
        THEN [lexer |-> lx, token |-> Token(Single[char], None, lx)]
        ELSE IF char \in {"<", ">"}
        THEN IF peek_next(lx) = "="
             THEN or_equal_token(get_char(lx))
             ELSE [lexer |-> lx,
                   token |-> Token(IF char = "<" THEN "LESS" ELSE "GTR", None, lx)]
        ELSE [lexer |-> lx, token |-> Token("NULL", None, lx)]

\* Lexer.get_token: the token and the lexer after it
lexer_get_token(lx0) ==
    LET at(r) == scan_token(r.lexer, r.char)
    IN  at(skip_whitespace(get_char(lx0)))

-----------------------------------------------------------------------------
(* pl0/parser.py: Parser *)

\* str.strip() for the blanks, tabs and newlines of a text
RECURSIVE lstrip(_)
lstrip(text) ==
    IF Len(text) > 0 /\ SubSeq(text, 1, 1) \in whitespace
    THEN lstrip(SubSeq(text, 2, Len(text))) ELSE text
RECURSIVE rstrip(_)
rstrip(text) ==
    IF Len(text) > 0 /\ SubSeq(text, Len(text), Len(text)) \in whitespace
    THEN rstrip(SubSeq(text, 1, Len(text) - 1)) ELSE text
strip(text) == rstrip(lstrip(text))

\* Parser.get_token.  The parser as a value: its lexer, the current token, the
\* declaration table and the code of the ParserException raised (0 when none);
\* a parser that has raised is left unchanged by every method.
get_token(ps) ==
    IF ps.err # 0 THEN ps
    ELSE LET advance(r) == [ps EXCEPT !.lexer = r.lexer, !.token = r.token]
         IN  advance(lexer_get_token(ps.lexer))

\* Parser.__init__
Parser(text) ==
    get_token([lexer |-> Lexer(strip(text)), token |-> None,
               declarations |-> EmptyDict, err |-> 0])

\* Parser.error: raise ParserException(error_num, ...)
error(ps, error_num) == IF ps.err # 0 THEN ps ELSE [ps EXCEPT !.err = error_num]

\* Parser.match: the value of the current token, and the parser advanced
match(ps, symbol, error_code) ==
    IF ps.err # 0 THEN [ps |-> ps, value |-> None]
    ELSE [ps |-> IF ps.token.symbol = symbol THEN get_token(ps)
                 ELSE error(ps, error_code),
          value |-> ps.token.value]

\* self.declarations[ident] = kind with every name recorded as a variable
declare_var(ps, ident, kind) ==
    IF ps.err # 0 THEN ps
    ELSE [ps EXCEPT !.declarations = DictSet(ps.declarations, ident, "VAR")]

\* self.declarations[ident] = kind
declare(ps, ident, kind) ==
    IF ps.err # 0 THEN ps
    ELSE [ps EXCEPT !.declarations = DictSet(ps.declarations, ident, kind)]

\* self.declarations.get(ident, Symbol.VAR): a missing name taken for a variable
declarations_get_default(ps, ident) ==
    IF ident \in DOMAIN ps.declarations THEN ps.declarations[ident] ELSE "VAR"

\* self.declarations.get(ident): None for a name that is not in the table
declarations_get(ps, ident) ==
    IF ident \in DOMAIN ps.declarations THEN ps.declarations[ident] ELSE "None"

Res(ps, node) == [ps |-> ps, node |-> node]

\* The methods of the parser call each other; in the model every such call
\* goes through parser_call, which names the method called and passes the
\* list a loop of the method has built so far (None when there is none).
RECURSIVE parser_call(_, _, _)

\* Parser.const_declaration
const_declaration(ps) ==
    LET number(i, v) == Res(declare(v.ps, i.value, "CONST"),
                            [type |-> "Const", name |-> i.value, value |-> v.value])
        ident(i) == number(i, match(match(i.ps, "EQL", 3).ps, "NUMBER", 2))
    IN  ident(match(ps, "IDENT", 4))

\* Parser.var_declaration
var_declaration(ps) ==
    LET ident(i) == Res(declare(i.ps, i.value, "VAR"), [type |-> "Var", name |-> i.value])
    IN  ident(match(ps, "IDENT", 4))

\* while self.token == Symbol.COMMA: ... const_declaration / var_declaration
RECURSIVE more_consts(_, _)
more_consts(ps, blocks) ==
    IF ps.err = 0 /\ ps.token.symbol = "COMMA"
    THEN LET declared(d) == more_consts(d.ps, Append(blocks, d.node))
         IN  declared(const_declaration(get_token(ps)))
    ELSE [ps |-> ps, blocks |-> blocks]

RECURSIVE more_vars(_, _)
more_vars(ps, blocks) ==
    IF ps.err = 0 /\ ps.token.symbol = "COMMA"
    THEN LET declared(d) == more_vars(d.ps, Append(blocks, d.node))
         IN  declared(var_declaration(get_token(ps)))
    ELSE [ps |-> ps, blocks |-> blocks]

\* while self.token == Symbol.PROC: ... in Parser.block
procedures(ps, blocks) ==
    IF ps.err = 0 /\ ps.token.symbol = "PROC"
    THEN LET body(i, b) ==
                 parser_call("procedures", match(b.ps, "SEMICOLON", 5).ps,
                     Append(blocks, [type |-> "Procedure", name |-> i.value,
                                     blocks |-> b.blocks]))
             ident(i) ==
                 body(i, parser_call("block", 
                            match(declare(i.ps, i.value, "PROC"), "SEMICOLON", 5).ps, None))
         IN  ident(match(get_token(ps), "IDENT", 4))
    ELSE [ps |-> ps, blocks |-> blocks]

\* Parser.block
parse_block(ps) ==
    LET declared(m) == [ps |-> match(m.ps, "SEMICOLON", 5).ps, blocks |-> m.blocks]
        first_const(d) == declared(more_consts(d.ps, <<d.node>>))
        consts == IF ps.err = 0 /\ ps.token.symbol = "CONST"
                  THEN first_const(const_declaration(get_token(ps)))
                  ELSE [ps |-> ps, blocks |-> <<>>]
        first_var(c, d) == declared(more_vars(d.ps, Append(c.blocks, d.node)))
        variables(c) == IF c.ps.err = 0 /\ c.ps.token.symbol = "VAR"
                        THEN first_var(c, var_declaration(get_token(c.ps)))
                        ELSE c
        body(p, s) ==
            [ps |-> s.ps,
             blocks |-> IF s.node.type # "None" THEN Append(p.blocks, s.node)
                        ELSE p.blocks]
        procs(p) == body(p, parser_call("statement", p.ps, None))
        declarations(v) == procs(parser_call("procedures", v.ps, v.blocks))
    IN  declarations(variables(consts))

\* while self.token == Symbol.SEMICOLON: ... in Parser.statement (begin ... end)
more_statements(ps, statements) ==
    IF ps.err = 0 /\ ps.token.symbol = "SEMICOLON"
    THEN LET parsed(s) ==
                 parser_call("more_statements", s.ps, IF s.node.type # "None"
                                            THEN Append(statements, s.node)
                                            ELSE statements)
         IN  parsed(parser_call("statement", get_token(ps), None))
    ELSE [ps |-> ps, statements |-> statements]

\* Parser.statement
statement(ps) ==
    IF ps.err # 0 THEN Res(ps, NoneNode)
    ELSE CASE ps.token.symbol = "IDENT" ->
                LET ident == ps.token.value
                    declaration_type == declarations_get(ps, ident)
                    p1 == IF declaration_type = "None" THEN error(ps, 11)
                          ELSE IF declaration_type # "VAR" THEN error(ps, 12)
                          ELSE ps
                    assigned(e) ==
                        Res(e.ps, [type |-> "Assignment", name |-> ident, value |-> e.node])
                IN  assigned(parser_call("expression", match(get_token(p1), "BECOMES", 13).ps, None))
           [] ps.token.symbol = "CALL" ->
                LET declaration_type(i) ==
                        IF i.ps.err # 0 THEN "None" ELSE declarations_get(i.ps, i.value)
                    called(i) ==
                        Res(IF declaration_type(i) = "None" THEN error(i.ps, 11)
                            ELSE IF declaration_type(i) # "PROC" THEN error(i.ps, 15)
                            ELSE i.ps,
                            [type |-> "Call", name |-> i.value])
                IN  called(match(get_token(ps), "IDENT", 14))
           [] ps.token.symbol = "IF" ->
                LET body(c, s) ==
                        Res(s.ps, [type |-> "If", condition |-> c.node, body |-> s.node])
                    cond(c) == body(c, parser_call("statement", match(c.ps, "THEN", 16).ps, None))
                IN  cond(parser_call("condition", get_token(ps), None))
           [] ps.token.symbol = "BEGIN" ->
                LET rest(m) == Res(match(m.ps, "END", 17).ps,
                                   [type |-> "Block", statements |-> m.statements])
                    first(s) == rest(parser_call("more_statements", s.ps, <<s.node>>))
                IN  first(parser_call("statement", get_token(ps), None))
           [] ps.token.symbol = "WHILE" ->
                LET body(c, s) ==
                        Res(s.ps, [type |-> "Loop", condition |-> c.node, body |-> s.node])
                    cond(c) == body(c, parser_call("statement", match(c.ps, "DO", 18).ps, None))
                IN  cond(parser_call("condition", get_token(ps), None))
           [] ps.token.symbol = "WRITE" ->
                LET value(e) == Res(e.ps, [type |-> "Output", value |-> e.node])
                IN  value(parser_call("expression", get_token(ps), None))
           [] ps.token.symbol = "DEBUG" -> Res(get_token(ps), [type |-> "Debug"])
           [] OTHER -> Res(ps, NoneNode)

\* Parser.condition without the check of the operator
condition_unchecked(ps) ==
    IF ps.err # 0 THEN Res(ps, NoneNode)
    ELSE IF ps.token.symbol = "ODD"
    THEN LET operand(e) == Res(e.ps, [type |-> "Odd", expression |-> e.node])
         IN  operand(parser_call("expression", get_token(ps), None))
    ELSE LET binary(left, right) ==
                 Res(right.ps, [type |-> "Binary", left |-> left.node,
                                right |-> right.node,
                                operator |-> left.ps.token.symbol])
             lhs(left) ==
                 binary(left, parser_call("expression", get_token(left.ps), None))
         IN  lhs(parser_call("expression", ps, None))
\* Parser.condition
condition(ps) ==
    IF ps.err # 0 THEN Res(ps, NoneNode)
    ELSE IF ps.token.symbol = "ODD"
    THEN LET operand(e) == Res(e.ps, [type |-> "Odd", expression |-> e.node])
         IN  operand(parser_call("expression", get_token(ps), None))
    ELSE LET binary(left, right) ==
                 Res(right.ps, [type |-> "Binary", left |-> left.node,
                                right |-> right.node,
                                operator |-> left.ps.token.symbol])
             lhs(left) ==
                 binary(left, parser_call("expression", get_token(
                     IF left.ps.err = 0 /\
                        left.ps.token.symbol \notin
                            {"EQL", "NEQ", "LESS", "LEQ", "GTR", "GEQ"}
                     THEN error(left.ps, 20) ELSE left.ps), None))
         IN  lhs(parser_call("expression", ps, None))

\* the loop of expression with the rest of the chain parsed as the right operand
more_terms_right(ps, expr) ==
    IF ps.err = 0 /\ ps.token.symbol \in {"PLUS", "MINUS"}
    THEN LET rhs(e) == Res(e.ps, [type |-> "Binary", left |-> expr, right |-> e.node,
                                  operator |-> ps.token.symbol])
         IN  rhs(parser_call("expression", get_token(ps), None))
    ELSE Res(ps, expr)

\* while self.token in [PLUS, MINUS]: ... in Parser.expression
more_terms(ps, expr) ==
    IF ps.err = 0 /\ ps.token.symbol \in {"PLUS", "MINUS"}
    THEN LET rhs(t) ==
                 parser_call("more_terms", t.ps, [type |-> "Binary", left |-> expr,
                                        right |-> t.node,
                                        operator |-> ps.token.symbol])
         IN  rhs(parser_call("term", get_token(ps), None))
    ELSE Res(ps, expr)

\* Parser.expression
expression(ps) ==
    IF ps.err # 0 THEN Res(ps, NoneNode)
    ELSE LET signed(t) ==
                 IF ps.token.symbol = "MINUS"
                 THEN Res(t.ps, [type |-> "Unary", operator |-> "MINUS", right |-> t.node])
                 ELSE t
             rest(first) == parser_call("more_terms", first.ps, first.node)
         IN  rest(IF ps.token.symbol \in {"PLUS", "MINUS"}
                  THEN signed(parser_call("term", get_token(ps), None))
                  ELSE parser_call("term", ps, None))

\* while self.token in [TIMES, SLASH]: ... in Parser.term
more_factors(ps, expr) ==
    IF ps.err = 0 /\ ps.token.symbol \in {"TIMES", "SLASH"}
    THEN LET rhs(f) ==
                 parser_call("more_factors", f.ps, [type |-> "Binary", left |-> expr,
                                          right |-> f.node,
                                          operator |-> ps.token.symbol])
         IN  rhs(parser_call("factor", get_token(ps), None))
    ELSE Res(ps, expr)

\* Parser.term
term(ps) ==
    IF ps.err # 0 THEN Res(ps, NoneNode)
    ELSE LET rest(f) == parser_call("more_factors", f.ps, f.node) IN rest(parser_call("factor", ps, None))

\* Parser.factor
factor(ps) ==
    IF ps.err # 0 THEN Res(ps, NoneNode)
    ELSE CASE ps.token.symbol = "IDENT" ->
                LET value == ps.token.value
                    declaration_type == declarations_get(ps, value)
                    p1 == IF declaration_type = "None" THEN error(ps, 11)
                          ELSE IF declaration_type = "PROC" THEN error(ps, 21)
                          ELSE ps
                IN  Res(get_token(p1), [type |-> "Identifier", name |-> value])
           [] ps.token.symbol = "NUMBER" ->
                Res(get_token(ps), [type |-> "Number", value |-> ps.token.value])
           [] ps.token.symbol = "LPAREN" ->
                LET inner(e) == Res(match(e.ps, "RPAREN", 22).ps,
                                    [type |-> "Grouping", expression |-> e.node])
                IN  inner(parser_call("expression", get_token(ps), None))
           [] OTHER -> Res(error(ps, 23), NoneNode)

parser_call(method, ps, arg) ==
    CASE method = "block" -> parse_block(ps)
      [] method = "statement" -> statement(ps)
      [] method = "condition" -> condition(ps)
      [] method = "expression" -> expression(ps)
      [] method = "term" -> term(ps)
      [] method = "factor" -> factor(ps)
      [] method = "procedures" -> procedures(ps, arg)
      [] method = "more_statements" -> more_statements(ps, arg)
      [] method = "more_terms" -> more_terms(ps, arg)
      [] method = "more_factors" -> more_factors(ps, arg)

\* Parser.program
parse_program(ps) ==
    LET ended(b) == [ps |-> match(b.ps, "PERIOD", 9).ps, blocks |-> b.blocks]
    IN  ended(parser_call("block", ps, None))

\* str(e) of the ParserException that Parser.error raised: the message of the
\* error code, the token the parser was at and its line and column
diagnostic(ps) ==
    [code |-> ps.err, token |-> ps.token.symbol, line |-> ps.token.line,
     column |-> ps.token.column]

\* Parser.parse: the list of nodes; after a ParserException the diagnostic is
\* written to stderr and None returned
parse_partial(text) ==
    LET result(r) ==
            [ok |-> r.ps.err = 0, tree |-> r.blocks, error_code |-> r.ps.err,
             stderr |-> IF r.ps.err = 0 THEN <<>> ELSE <<diagnostic(r.ps)>>]
    IN  result(parse_program(Parser(text)))
parse(text) ==
    LET result(r) ==
            [ok |-> r.ps.err = 0, tree |-> IF r.ps.err = 0 THEN r.blocks ELSE <<>>,
             error_code |-> r.ps.err,
             stderr |-> IF r.ps.err = 0 THEN <<>> ELSE <<diagnostic(r.ps)>>]
    IN  result(parse_program(Parser(text)))

-----------------------------------------------------------------------------
(* The inputs of the model *)

\* The tree of a text that the parser tests describe
\* (tests/test_parser.py, test_block and test_statement): every Procedure node
\* has a "parameters" list and every Call node an "arguments" list.  Trees of
\* this form are the inputs the generator is given directly.
RECURSIVE Listed(_)
ListedSeq(nodes) == [i \in 1..Len(nodes) |-> Listed(nodes[i])]
Listed(node) ==
    CASE node.type = "Procedure" ->
            [type |-> "Procedure", name |-> node.name, parameters |-> <<>>,
             blocks |-> ListedSeq(node.blocks)]
      [] node.type = "Call" -> [type |-> "Call", name |-> node.name, arguments |-> <<>>]
      [] node.type = "Block" -> [node EXCEPT !.statements = ListedSeq(@)]
      [] node.type \in {"If", "Loop"} -> [node EXCEPT !.body = Listed(@)]
      [] OTHER -> node

TextInput(name, text, args) ==
    [kind |-> "text", name |-> name, text |-> text, tree |-> <<>>, code |-> <<>>,
     args |-> args]
TreeInput(name, text, args) ==
    [kind |-> "tree", name |-> name, text |-> text,
     tree |-> ListedSeq(parse(text).tree), code |-> <<>>, args |-> args]
CodeInput(name, instructions) ==
    [kind |-> "code", name |-> name, text |-> "", tree |-> <<>>,
     code |-> instructions, args |-> <<>>]

\* tests/test_snapshots.py, SCOPE
SCOPE ==
    "VAR a;\n\nPROCEDURE outer;\n    var b;\n    PROCEDURE inner;\n        var c;\n"
    \o "    BEGIN\n        c := 3;\n        WRITE a;\n        WRITE b;\n        WRITE c;\n"
    \o "    END;\nBEGIN\n    b := 2;\n    WRITE a;\n    WRITE b;\n    CALL inner;\nEND;\n\n"
    \o "PROCEDURE first;\nBEGIN\n    WRITE a;\n    call outer;\nEND;\n\n"
    \o "BEGIN\n    a := 1;\n    CALL first;\nEND.\n"

\* A recursion that ends: p calls itself while the global n is positive.
COUNTDOWN ==
    "var n; procedure p; var x, y, z; "
    \o "begin if n > 0 then begin n := n - 1; call p end end; "
    \o "begin n := 2; call p end."

\* A recursion that does not end: every activation takes six more words.
RUNAWAY == "procedure p; var x, y, z; call p; call p."

\* A loop, and a program that switches the debugger on.
LOOP == "var i; begin i := 0; while i < 2 do i := i + 1; write i end."
COUNTING ==
    "var i; begin i := 0; "
    \o "while i < 3 do begin i := i + 1; if odd i then write i end end."
DEBUGGED == "begin debug; write 1 end."

\* A procedure with two parameters, called with two arguments, and the tree
\* the parser tests give for such a text (tests/test_parser.py, test_block
\* and test_statement).
PARAMETERS == "procedure f(a, b); write a; call f(1, 2)."
PARAMETERS_TREE ==
    <<[type |-> "Procedure", name |-> "f",
       parameters |-> <<[type |-> "Var", name |-> "a"], [type |-> "Var", name |-> "b"]>>,
       blocks |-> <<[type |-> "Output",
                     value |-> [type |-> "Identifier", name |-> "a"]]>>],
      [type |-> "Call", name |-> "f",
       arguments |-> <<[type |-> "Number", value |-> 1],
                       [type |-> "Number", value |-> 2]>>]>>

\* The decimal text of a number, and the text of an operand: a negative
\* operand is written (0 - n), since a factor cannot start with a sign.
RECURSIVE str(_)
str(n) == IF n < 10 THEN digit_chars[n + 1] ELSE str(n \div 10) \o digit_chars[(n % 10) + 1]
Operand(x) == IF x < 0 THEN "(0 - " \o str(-x) \o ")" ELSE str(x)

\* write x OP y, for the arithmetic of the machine
ArithInput(x, op, y) ==
    TextInput("arith", "write " \o Operand(x) \o " " \o op \o " " \o Operand(y) \o ".",
              <<x, op, y>>)
\* const a = .., b = .., c = ..; write a OP1 b OP2 c
ChainInput(a, op1, b, op2, c) ==
    TextInput("chain",
              "const a = " \o str(a) \o ", b = " \o str(b) \o ", c = " \o str(c)
              \o "; write a " \o op1 \o " b " \o op2 \o " c.",
              <<a, op1, b, op2, c>>)
\* if x OP y then write 1
RelInput(x, op, y) ==
    TextInput("rel", "if " \o Operand(x) \o " " \o op \o " " \o Operand(y)
                     \o " then write 1.",
              <<x, op, y>>)

\* One reference to x (an assignment, a call, a factor) after one declaration
\* of x (none, a constant, a variable, a procedure)
RefInput(kind, ref) ==
    TextInput("reference",
              (CASE kind = "None" -> ""
                 [] kind = "CONST" -> "const x = 1; "
                 [] kind = "VAR" -> "var x; "
                 [] kind = "PROC" -> "procedure x; ; ")
              \o (CASE ref = "assign" -> "x := 1"
                    [] ref = "call" -> "call x"
                    [] ref = "use" -> "write 2 * x")
              \o ".",
              <<kind, ref>>)

\* if FIRST TOKEN 3 then write 1, where TOKEN is not a relational operator and
\* lexes to the symbol named
CondInput(first, token) ==
    TextInput("condition",
              "if " \o first \o " " \o token[1] \o " 3 then write 1.",
              <<first, token[1], token[2]>>)

Inputs ==
    LET Consts == 0..MaxConst
        Operands == (-MaxConst)..MaxConst
        ArithmeticOps == {"+", "-", "*", "/"}
        RelationalOps == {"=", "!=", "<", "<=", ">", ">="}
    IN
    {TreeInput("scope", SCOPE, <<>>), TextInput("scope", SCOPE, <<>>),
     TreeInput("countdown", COUNTDOWN, <<>>), TreeInput("runaway", RUNAWAY, <<>>),
     TextInput("stale", "var x; begin write x; x := 5 end.", <<>>),
     TextInput("loop", LOOP, <<>>), TextInput("counting", COUNTING, <<>>), TextInput("debug", DEBUGGED, <<>>),
     TextInput("empty", ".", <<>>), TextInput("declarations", "const k = 1; var x; .", <<>>),
     TextInput("bad", "write 1 ~ 2.", <<>>),
     TextInput("parameters", PARAMETERS, <<>>),
     TextInput("later", "procedure p; call q; procedure q; ; call p.", <<>>),
     TextInput("inside", "procedure p; var y; y := 1; y := 2.", <<>>),
     TextInput("twice", "var x; begin x := 1; x := := 2; 3 end.", <<>>),
     TreeInput("inside", "procedure p; var y; y := 1; y := 2.", <<>>),
     TreeInput("shadowed", "const w = 1; procedure p; var w; w := 2; w := 3.", <<>>),
     TreeInput("several",
               "procedure p; var v; v := 1; procedure q; var v; v := 2; "
               \o "begin call p; call q end.", <<>>),
     TextInput("redeclared", "var z; procedure p; const z = 5; ; z := 1.", <<>>),
     TextInput("again", "var x, x; begin x := 1; write 5; write x end.", <<>>),
     TreeInput("enclosing",
               "procedure outer; procedure inner; call outer; call inner; call outer.",
               <<>>),
     TreeInput("forever",
               "var x, x; procedure p; begin x := 2; x := 9 end; call p.", <<>>),
     TreeInput("again",
               "var x, x; procedure p; x := 7; begin x := 1; call p; write x end.", <<>>),
     [TextInput("parameters", PARAMETERS, <<>>) EXCEPT
         !.kind = "tree", !.tree = PARAMETERS_TREE],
     TextInput("precedence", "write 1 + 2 * 3.", <<7>>),
     TextInput("precedence", "write (1 + 2) * 3.", <<9>>),
     TextInput("floor", "write 7 / 2.", <<3>>),
     TextInput("floor", "write (0 - 7) / 2.", <<-4>>),
     TextInput("floor", "write 7 / (0 - 2).", <<-4>>),
     CodeInput("undefined",
        <<Ins("JMP", 0, 1), Ins("INT", 0, 3), Ins("LIT", 0, 5), Ins("DET", 0, 0),
          Ins("OPR", 0, 7), Ins("OPR", 0, WRITE), Ins("OPR", 0, RETURN)>>),
     CodeInput("runoff", <<Ins("JMP", 0, 1), Ins("INT", 0, 3), Ins("LIT", 0, 1)>>)}
    \cup {ArithInput(x, op, y) : x \in Operands, op \in ArithmeticOps, y \in Operands}
    \cup {ChainInput(a, op1, b, op2, c) :
            a \in Consts, op1 \in ArithmeticOps, b \in Consts,
            op2 \in ArithmeticOps, c \in Consts}
    \cup {RelInput(x, op, y) : x \in Operands, op \in RelationalOps, y \in Operands}
    \cup {RefInput(kind, ref) : kind \in {"None", "CONST", "VAR", "PROC"},
                                ref \in {"assign", "call", "use"}}
    \cup {CondInput(first, token) :
            first \in {"4", "(4 + 1)", "4 * 2 - 1"},
            token \in {<<"~", "NULL">>, <<":", "NULL">>, <<":=", "BECOMES">>,
                       <<",", "COMMA">>, <<";", "SEMICOLON">>, <<".", "PERIOD">>,
                       <<"(", "LPAREN">>, <<")", "RPAREN">>, <<"", "NUMBER">>,
                       <<"x", "IDENT">>, <<"odd", "ODD">>, <<"then", "THEN">>,
                       <<"do", "DO">>, <<"end", "END">>}}

-----------------------------------------------------------------------------
(* pl0/__main__.py and the loop of VM.interpret *)

ZeroStore == [i \in 0..(StackSize - 1) |-> 0]
NoStored == [i \in 0..(StackSize - 1) |-> <<>>]

\* no run of interpret has ended yet
NoRun == [status |-> "", out |-> <<>>]

Init ==
    /\ input \in Inputs
    /\ status = CASE input.kind = "text" -> "source"
                  [] input.kind = "tree" -> "parsed"
                  [] input.kind = "code" -> "generated"
    /\ ast = input.tree
    /\ code = input.code
    /\ program = 0
    /\ base = 0
    /\ topstack = -1
    /\ datastore = ZeroStore
    /\ debug = FALSE
    /\ out = <<>>
    /\ stderr = <<>>
    /\ lexer = Lexer(input.text)
    /\ invoked = ""
    /\ returned = None
    /\ last = -1
    /\ frames = <<>>
    /\ stored = NoStored
    /\ meta = <<>>
    /\ seen = <<>>
    /\ written = <<>>
    /\ python = "" /\ run = 0 /\ previous = NoRun

\* Command.handle: ast = Parser.parse(f.read()); if ast is None: return
Parse ==
    /\ status = "source"
    /\ LET r == parse(input.text)
       IN  /\ status' = IF r.ok THEN "parsed" ELSE "ParserError"
           /\ ast' = r.tree
           /\ stderr' = stderr \o r.stderr
    /\ UNCHANGED <<input, code, program, base, topstack, datastore, debug, out,
                   last, frames, stored, meta, seen, written>>
    /\ UNCHANGED lexvars
    /\ UNCHANGED auxvars

\* Command.handle: code = Generator.generate_code(ast), then VM(code): an
\* exception of the generator ends the run; VM.__init__ sets the registers and
\* allocates the data store.
Generate ==
    /\ status = "parsed"
    /\ LET g == generate_code(ast)
       IN  /\ status' = IF g.err # "" THEN g.err ELSE "generated"
           /\ code' = IF g.err # "" THEN <<>> ELSE g.code
           /\ meta' = IF g.err # "" THEN <<>> ELSE g.procs
    /\ program' = 0
    /\ base' = 0
    /\ topstack' = -1
    /\ datastore' = ZeroStore
    /\ debug' = FALSE
    /\ UNCHANGED <<input, ast, out, stderr, last, frames, stored, seen, written>>
    /\ UNCHANGED lexvars
    /\ UNCHANGED auxvars

\* VM.interpret up to its loop: the registers and the global frame are reset.
Interpret ==
    /\ status = "generated"
    /\ status' = "running"
    /\ topstack' = -1
    /\ base' = 0
    /\ program' = 0
    /\ datastore' = [datastore EXCEPT ![0] = 0, ![1] = 0, ![2] = 0]
    /\ last' = -1
    /\ frames' = <<>>
    /\ stored' = NoStored
    /\ seen' = [pc \in 1..Len(code) |-> -1]
    /\ written' = <<>>
    /\ run' = run + 1
    /\ UNCHANGED <<input, ast, code, debug, out, stderr, meta, python, previous>>
    /\ UNCHANGED lexvars

\* The largest number of calls of interpret on one VM object.
MaxRuns == 2

\* what a call of interpret sets before its loop
reset_keeps_base(m) ==
    [m EXCEPT !.topstack = -1, !.program = 0,
              !.datastore = [@ EXCEPT ![0] = 0, ![1] = 0, ![2] = 0]]

reset(m) ==
    [m EXCEPT !.topstack = -1, !.base = 0, !.program = 0,
              !.datastore = [@ EXCEPT ![0] = 0, ![1] = 0, ![2] = 0]]

\* VM.interpret called again on the same VM object, after a run that halted or
\* raised: the same statements as in Interpret, on what the run before left
\* in the object.  out becomes what this run prints, previous the outcome of
\* the run before.
Rerun ==
    /\ run >= 1 /\ run < MaxRuns
    /\ status \in {"halted", "IndexError", "ZeroDivisionError"}
    /\ status' = "running"
    /\ topstack' = reset(Machine).topstack
    /\ base' = reset(Machine).base
    /\ program' = reset(Machine).program
    /\ datastore' = reset(Machine).datastore
    /\ last' = -1
    /\ frames' = <<>>
    /\ stored' = NoStored
    /\ seen' = [pc \in 1..Len(code) |-> -1]
    /\ written' = <<>>
    /\ run' = run + 1
    /\ previous' = [status |-> status, out |-> out]
    /\ out' = <<>>
    /\ UNCHANGED <<input, ast, code, debug, stderr, meta, python>>
    /\ UNCHANGED lexvars

\* self.code[self.program]: a Python list index
HasInstr == -Len(code) <= program /\ program < Len(code)
Fetching == IF program < 0 THEN program + Len(code) ELSE program
Instr == code[Fetching + 1]

\* The procedure whose code holds instruction pc: the innermost range of meta
\* that contains it; the program itself otherwise.
Global == [jmp |-> 0, last |-> Len(code) - 1, level |-> 0, nparams |-> 0]
Innermost(S) ==
    IF S = {} THEN Global
    ELSE meta[CHOOSE i \in S : \A j \in S : meta[j].jmp <= meta[i].jmp]
ProcAt(pc) == Innermost({i \in DOMAIN meta : meta[i].jmp <= pc /\ pc <= meta[i].last})
\* the procedure that lexically encloses procedure p: the innermost one whose
\* code holds all of p's code and more
Parent(p) ==
    Innermost({i \in DOMAIN meta : meta[i].jmp < p.jmp /\ p.last < meta[i].last})

\* The history variables after the instruction at `program` took machine
\* Machine to m.
History(m) ==
    /\ last' = program
    /\ frames' =
         IF m.err # "" THEN frames
         ELSE IF Instr.op = "CAL"
         THEN Append(frames, [base |-> m.base, entry |-> Instr.v, ret |-> program + 1,
                              caller |-> base, tos |-> topstack, ds |-> datastore,
                              nparams |-> ProcAt(Instr.v).nparams, dirty |-> FALSE])
         ELSE IF Instr.op = "OPR" /\ Instr.v = RETURN /\ frames # <<>>
         THEN SubSeq(frames, 1, Len(frames) - 1)
         ELSE IF Instr.op = "STO"
         THEN LET b == find_base(Machine, Instr.l).base
              IN  [i \in DOMAIN frames |->
                     IF b < frames[i].base
                     THEN [frames[i] EXCEPT !.dirty = TRUE] ELSE frames[i]]
         ELSE frames
    /\ stored' =
         IF m.err # "" THEN stored
         ELSE IF Instr.op = "STO"
         THEN [stored EXCEPT ![Idx(find_base(Machine, Instr.l).base + Instr.v)] =
                 <<datastore[Idx(topstack)]>>]
         ELSE IF Instr.op = "OPR" /\ Instr.v = RETURN
         THEN [i \in DOMAIN stored |-> IF i >= base THEN <<>> ELSE stored[i]]
         ELSE stored
    /\ seen' = [seen EXCEPT ![Fetching + 1] = topstack]
    /\ written' =
         IF m.err # "" \/ Instr.op # "OPR" THEN written
         ELSE IF Instr.v = WRITE
         THEN Append(written, [addr |-> topstack, value |-> datastore[Idx(topstack)],
                               base |-> base])
         ELSE IF Instr.v = RETURN
         THEN SelectSeq(written, LAMBDA w : w.base < base)
         ELSE written

\* The end of one turn of the loop: the machine is written back; an exception
\* ends the run, and so does program == 0.
Commit(m) ==
    /\ program' = m.program
    /\ base' = m.base
    /\ topstack' = m.topstack
    /\ datastore' = m.datastore
    /\ debug' = m.debug
    /\ out' = m.out
    /\ status' = IF m.err # "" THEN m.err
                 ELSE IF m.program = 0 THEN "halted" ELSE "running"
    /\ History(m)
    /\ UNCHANGED <<input, ast, code, stderr, meta>>
    /\ UNCHANGED lexvars
    /\ UNCHANGED auxvars

\* The start of one turn of the loop: the instruction is fetched and program
\* incremented; with debug set, print_debug asks the user, who may type q.
Quit == IF debug THEN BOOLEAN ELSE {FALSE}
Fetched(q) == [Machine EXCEPT !.program = program + 1, !.debug = debug /\ ~q]
Fetch(op) == status = "running" /\ HasInstr /\ Instr.op = op

FetchError ==
    /\ status = "running"
    /\ ~HasInstr
    /\ status' = "IndexError"
    /\ UNCHANGED <<input, ast, code, program, base, topstack, datastore, debug,
                   out, stderr, last, frames, stored, meta, seen, written>>
    /\ UNCHANGED lexvars
    /\ UNCHANGED auxvars

DoLIT == Fetch("LIT") /\ \E q \in Quit : Commit(push(Fetched(q), Instr.v))
DoOPR == Fetch("OPR") /\ \E q \in Quit : Commit(perform_operation(Fetched(q), Instr.v))
DoLOD == Fetch("LOD") /\ \E q \in Quit : Commit(exec_LOD(Fetched(q), Instr.l, Instr.v))
DoSTO == Fetch("STO") /\ \E q \in Quit : Commit(exec_STO(Fetched(q), Instr.l, Instr.v))
DoCAL == Fetch("CAL") /\ \E q \in Quit : Commit(exec_CAL(Fetched(q), Instr.l, Instr.v))
DoINT == Fetch("INT") /\ \E q \in Quit : Commit(exec_INT(Fetched(q), Instr.v))
DoJMP == Fetch("JMP") /\ \E q \in Quit : Commit(exec_JMP(Fetched(q), Instr.v))
DoJPC == Fetch("JPC") /\ \E q \in Quit : Commit(exec_JPC(Fetched(q), Instr.v))

\* an opcode that no branch of the loop names: the turn changes nothing else
DoOther ==
    /\ status = "running" /\ HasInstr /\ Instr.op \notin OP_CODE
    /\ \E q \in Quit : Commit(Fetched(q))

Next ==
    \/ Parse
    \/ Generate
    \/ Interpret
    \/ FetchError
    \/ DoLIT
    \/ DoOPR
    \/ DoLOD
    \/ DoSTO
    \/ DoCAL
    \/ DoINT
    \/ DoJMP
    \/ DoJPC
    \/ DoOther

Spec == Init /\ [][Next]_vars

\* The same program, with interpret called up to MaxRuns times on the VM.
RerunNext == Next \/ Rerun

RerunSpec == Init /\ [][RerunNext]_vars

\* The steps of VM.interpret: its start and the turns of its loop.
Turn ==
    \/ Interpret
    \/ FetchError
    \/ DoLIT
    \/ DoOPR
    \/ DoLOD
    \/ DoSTO
    \/ DoCAL
    \/ DoINT
    \/ DoJMP
    \/ DoJPC
    \/ DoOther

\* Command.handle calls interpret on the code it generated, and the loop of
\* interpret fetches the next instruction as soon as the last one is done: a
\* step of interpret that can be taken is taken.  (With the debugger on, the
\* loop waits for the user's line; the user is taken to answer.)
FairSpec == Init /\ [][Next]_vars /\ WF_vars(Turn)

-----------------------------------------------------------------------------
(* Vocabulary of the properties *)

Errors == {"ParserError", "KeyError", "AttributeError", "TypeError", "IndexError",
           "ZeroDivisionError"}

\* the run is of code that Generator.generate_code produced
Compiled == input.kind # "code"

\* the loop of interpret is about to execute an instruction
Running == status = "running" /\ HasInstr

\* the instruction executed last
Executed == code[last + 1]
HasExecuted == last >= 0 /\ last < Len(code)

\* the program has a top-level node that is not a declaration
HasStatement == \E i \in DOMAIN ast : should_fixup(ast[i])

\* the procedure l lexical levels out from procedure p
RECURSIVE Ancestor(_, _)
Ancestor(p, l) == IF l <= 0 THEN p ELSE Ancestor(Parent(p), l - 1)

\* the live activations of procedure p, oldest first, and the base of the most
\* recent one (the global frame has base 0 and is always live)
LiveFrames(p) == {i \in DOMAIN frames : ProcAt(frames[i].entry) = p}
LiveBase(p) ==
    IF p.jmp = 0 THEN 0
    ELSE frames[CHOOSE i \in LiveFrames(p) : \A j \in LiveFrames(p) : j <= i].base

\* the operand of the INT that allocates the frame of procedure p
IntOperand(p) == code[code[p.jmp + 1].v + 1].v

\* the first instruction of the expression whose code ends at instruction pc:
\* a number or an identifier is one instruction, a negation or odd follows its
\* operand, a binary operation follows its right operand, which follows its
\* left operand (pc + 1 when no expression ends at pc)
RECURSIVE ExpressionStart(_)
ExpressionStart(pc) ==
    IF pc < 0 THEN pc + 1
    ELSE IF code[pc + 1].op \in {"LIT", "LOD"} THEN pc
    ELSE IF code[pc + 1].op = "OPR" /\ code[pc + 1].v \in {NEGATE, ODD}
    THEN ExpressionStart(pc - 1)
    ELSE IF code[pc + 1].op = "OPR" /\ code[pc + 1].v \in OPERATION_MAP_KEYS
    THEN ExpressionStart(ExpressionStart(pc - 1) - 1)
    ELSE pc + 1

-----------------------------------------------------------------------------
(* C1: scope resolution through static links *)

\* C1: in a compiled program, every LOD or STO about to execute at lexical
\* depth d' carries a level l <= d', and following l static links from the
\* current base reaches the base of the most recent live activation of the
\* scope l levels out, whose frame has a variable slot at the offset; a LOD
\* reads what the last STO to that slot stored; the SCOPE program prints
\* 1, 1, 2, 1, 2, 3.
C1_ScopeResolution ==
    /\ (Compiled /\ Running /\ Instr.op \in {"LOD", "STO"}) =>
          LET p == ProcAt(program)
              q == Ancestor(p, Instr.l)
              b == find_base(Machine, Instr.l)
          IN  /\ Instr.l <= p.level
              /\ q.level = p.level - Instr.l
              /\ q.jmp # 0 => LiveFrames(q) # {}
              /\ b.ok /\ b.base = LiveBase(q)
              /\ 3 <= Instr.v /\ Instr.v < IntOperand(q)
              /\ (Instr.op = "LOD" /\ stored[b.base + Instr.v] # <<>>) =>
                    datastore[b.base + Instr.v] = stored[b.base + Instr.v][1]
    /\ (input.name = "scope" /\ status = "halted") => out = <<1, 1, 2, 1, 2, 3>>

\* inner, nested two deep and called through first and outer, is about to read
\* the global a through two static links
C1_Witness ==
    /\ input.name = "scope" /\ Running
    /\ Instr = Ins("LOD", 2, 3)
    /\ ProcAt(program).level = 2
    /\ Len(frames) = 3
    /\ find_base(Machine, 2).base = 0
    /\ datastore[frames[2].base] = 0
    /\ datastore[frames[2].base + 1] = frames[1].base
    /\ frames[1].base # 0

-----------------------------------------------------------------------------
(* C2: frame discipline *)

-----------------------------------------------------------------------------
(* C3: when a run ends *)

-----------------------------------------------------------------------------
(* C4: the effect of CAL *)

\* C4: CAL l v, executed with topstack + 3 inside the data store, writes
\* find_base(l), the old base and the incremented program into the three slots
\* above topstack, sets base to topstack + 1 and program to v, and changes
\* neither topstack nor any other slot; when the three slots do not fit, the
\* run ends with IndexError.
C4_CallEffect ==
    [][(Running /\ Instr.op = "CAL") =>
         LET sl == find_base(Machine, Instr.l)
         IN  IF sl.ok /\ -1 <= topstack /\ topstack + 3 < StackSize
             THEN /\ datastore' = [datastore EXCEPT ![topstack + 1] = sl.base,
                                                    ![topstack + 2] = base,
                                                    ![topstack + 3] = program + 1]
                  /\ base' = topstack + 1
                  /\ program' = Instr.v
                  /\ topstack' = topstack
                  /\ out' = out
                  /\ status' = IF Instr.v = 0 THEN "halted" ELSE "running"
             ELSE status' = "IndexError" /\ base' = base /\ topstack' = topstack]_vars

\* first has just called outer: the new frame's static link is the global
\* base, its dynamic link first's base, its return address the next instruction
C4_Witness ==
    /\ input.name = "scope" /\ status = "running"
    /\ HasExecuted /\ Executed = Ins("CAL", 1, 13)
    /\ program = 13
    /\ base = topstack + 1
    /\ datastore[base] = 0
    /\ datastore[base + 1] = frames[1].base /\ datastore[base + 1] # 0
    /\ datastore[base + 2] = last + 1

-----------------------------------------------------------------------------
(* C5: the bounds of the stack pointer *)

\* C5 as stated: while interpret runs, -1 <= topstack < stack_size.
C5_StackBounds ==
    status = "running" => (-1 <= topstack /\ topstack < StackSize)

-----------------------------------------------------------------------------
(* C6: instructions the machine does not implement *)

UndefinedInstruction(i) ==
    \/ i.op \notin OP_CODE
    \/ i.op = "OPR" /\ i.v \notin OPERATION

\* C6 as stated: once an instruction with an undefined opcode, or an OPR with
\* an undefined operation, has been executed, the run has stopped with an error.
C6_UndefinedIsFatal ==
    (HasExecuted /\ UndefinedInstruction(Executed)) => status \in Errors

-----------------------------------------------------------------------------
(* C7: division by zero *)

\* the loop is about to execute OPR 0 DIV
AtDivision == Running /\ Instr = Ins("OPR", 0, DIV) /\ 1 <= topstack /\ topstack < StackSize

\* C7: OPR DIV with 0 on top of the stack ends the run with
\* ZeroDivisionError: both operands have been popped, nothing is pushed or
\* stored, nothing is written, and no step follows.
C7_DivisionByZeroIsFatal ==
    [][/\ (AtDivision /\ datastore[topstack] = 0) =>
            /\ status' = "ZeroDivisionError"
            /\ topstack' = topstack - 2
            /\ datastore' = datastore
            /\ out' = out
       /\ status # "ZeroDivisionError"]_vars

\* the run of  const a = 1, b = 0, c = 2; write a / b + c  has ended in the division
C7_Witness ==
    /\ status = "ZeroDivisionError"
    /\ input.name = "chain" /\ input.args = <<1, "/", 0, "+", 2>>
    /\ HasExecuted /\ Executed = Ins("OPR", 0, DIV)
    /\ out = <<>>

-----------------------------------------------------------------------------
(* C8: arithmetic *)

\* q is the quotient of a by b rounded toward negative infinity
IsFloorQuotient(q, a, b) ==
    /\ b > 0 => (0 <= a - q * b /\ a - q * b < b)
    /\ b < 0 => (b < a - q * b /\ a - q * b <= 0)

\* C8: OPR ADD, SUB, MULT and DIV (divisor not 0) replace the two top words,
\* lhs below rhs, by op(lhs, rhs) in the slot of lhs and lower topstack by
\* one; the result of DIV is the floor of lhs / rhs whatever the signs; the
\* three divisions 7/2, (0-7)/2 and 7/(0-2) print 3, -4 and -4.
C8_Arithmetic ==
    /\ [][(/\ Running /\ Instr.op = "OPR" /\ Instr.v \in {ADD, SUB, MULT, DIV}
           /\ 1 <= topstack /\ topstack < StackSize
           /\ ~(Instr.v = DIV /\ datastore[topstack] = 0)) =>
            LET lhs == datastore[topstack - 1]
                rhs == datastore[topstack]
                result == datastore'[topstack - 1]
            IN  /\ status' = "running"
                /\ topstack' = topstack - 1
                /\ \A i \in DOMAIN datastore :
                      i # topstack - 1 => datastore'[i] = datastore[i]
                /\ Instr.v = ADD => result = lhs + rhs
                /\ Instr.v = SUB => result = lhs - rhs
                /\ Instr.v = MULT => result = lhs * rhs
                /\ Instr.v = DIV => IsFloorQuotient(result, lhs, rhs)]_vars
    /\ []((input.name = "floor" /\ status \notin {"source", "parsed", "generated", "running"})
            => (status = "halted" /\ out = input.args))

\* 7 / (0 - 2) has printed -4: the division was the last OPR before the WRITE
C8_Witness ==
    /\ status = "halted"
    /\ input.text = "write 7 / (0 - 2)."
    /\ Ins("OPR", 0, DIV) \in Range(code)
    /\ out = <<-4>>

-----------------------------------------------------------------------------
(* C9: associativity and precedence *)

\* the value of x op y in arithmetic, none when it divides by zero
Apply(op, x, y) ==
    CASE op = "+" -> <<x + y>>
      [] op = "-" -> <<x - y>>
      [] op = "*" -> <<x * y>>
      [] op = "/" -> IF y = 0 THEN <<>>
                     ELSE <<CHOOSE q \in (-(x * x) - 1)..(x * x + 1) : IsFloorQuotient(q, x, y)>>

\* a op1 b op2 c read left to right, * and / before + and -
ChainValue(a, op1, b, op2, c) ==
    LET Apply2(op, xs, ys) ==
            IF xs = <<>> \/ ys = <<>> THEN <<>> ELSE Apply(op, xs[1], ys[1])
    IN
    IF op1 \in {"+", "-"} /\ op2 \in {"*", "/"}
    THEN Apply2(op1, <<a>>, Apply(op2, b, c))
    ELSE Apply2(op2, Apply(op1, a, b), <<c>>)

\* C9: a run of  const a = .., b = .., c = ..; write a OP1 b OP2 c  ends
\* either halted, having printed the value of the chain read left to right
\* with * and / binding tighter than + and -, or in ZeroDivisionError, having
\* printed nothing, when that reading divides by zero; write 1 + 2 * 3 prints
\* 7 and write (1 + 2) * 3 prints 9.
C9_Chains ==
    /\ (input.name = "chain" /\ status \notin {"source", "parsed", "generated", "running"}) =>
          LET value == ChainValue(input.args[1], input.args[2], input.args[3],
                                  input.args[4], input.args[5])
          IN  IF value = <<>> THEN status = "ZeroDivisionError" /\ out = <<>>
              ELSE status = "halted" /\ out = value
    /\ (input.name = "precedence" /\ status \notin {"source", "parsed", "generated", "running"})
          => (status = "halted" /\ out = input.args)

\* write a - b - c with a = 0, b = 1, c = 2 has printed (0 - 1) - 2
C9_Witness ==
    /\ status = "halted"
    /\ input.name = "chain" /\ input.args = <<0, "-", 1, "-", 2>>
    /\ out = <<-3>>

-----------------------------------------------------------------------------
(* C10: comparisons and JPC *)

Holds(op, x, y) ==
    CASE op = "=" -> x = y
      [] op = "!=" -> x # y
      [] op = "<" -> x < y
      [] op = "<=" -> x <= y
      [] op = ">" -> x > y
      [] op = ">=" -> x >= y

\* the operation of constants.py for each relational operator of the language
RelationalOperation(op) ==
    CASE op = "=" -> 8
      [] op = "!=" -> 9
      [] op = "<" -> 10
      [] op = "<=" -> 13
      [] op = ">" -> 12
      [] op = ">=" -> 11

\* the relation each comparison operation of the machine decides
Decides(operation, x, y) ==
    CASE operation = 8 -> x = y
      [] operation = 9 -> x # y
      [] operation = 10 -> x < y
      [] operation = 11 -> x >= y
      [] operation = 12 -> x > y
      [] operation = 13 -> x <= y

\* the instructions that push an operand written as Operand writes it
OperandCode(x) ==
    IF x < 0 THEN <<Ins("LIT", 0, 0), Ins("LIT", 0, -x), Ins("OPR", 0, 3)>>
    ELSE <<Ins("LIT", 0, x)>>

\* the code of  if x OP y then write 1
RelCode(x, op, y) ==
    LET n == Len(OperandCode(x)) + Len(OperandCode(y))
    IN  <<Ins("JMP", 0, 1), Ins("INT", 0, 3)>> \o OperandCode(x) \o OperandCode(y)
        \o <<Ins("OPR", 0, RelationalOperation(op)), Ins("JPC", 0, n + 6),
             Ins("LIT", 0, 1), Ins("OPR", 0, 14), Ins("OPR", 0, 0)>>

\* C10: if x OP y then write 1  compiles to the code of x, the code of y, the
\* OPR of the operator and a JPC to the instruction after the body, and its
\* run halts having printed 1 exactly when x OP y holds; every comparison OPR
\* replaces lhs and rhs by 1 when its relation holds and by 0 when not; JPC
\* pops one word and jumps to its operand exactly when that word is 0.
C10_Comparisons ==
    /\ [](input.name = "rel" =>
            /\ status \notin Errors
            /\ status \in {"generated", "running", "halted"} =>
                  code = RelCode(input.args[1], input.args[2], input.args[3])
            /\ status = "halted" =>
                  out = IF Holds(input.args[2], input.args[1], input.args[3])
                        THEN <<1>> ELSE <<>>)
    /\ [][/\ (/\ Running /\ Instr.op = "OPR" /\ Instr.v \in {8, 9, 10, 11, 12, 13}
              /\ 1 <= topstack /\ topstack < StackSize) =>
                /\ topstack' = topstack - 1
                /\ datastore'[topstack - 1] =
                      IF Decides(Instr.v, datastore[topstack - 1], datastore[topstack])
                      THEN 1 ELSE 0
          /\ (Running /\ Instr.op = "JPC" /\ 0 <= topstack /\ topstack < StackSize) =>
                /\ topstack' = topstack - 1
                /\ program' = IF datastore[topstack] = 0 THEN Instr.v ELSE program + 1
                /\ datastore' = datastore]_vars

\* if (0 - 1) <= 2 then write 1  has compared, not jumped, and printed 1
C10_Witness ==
    /\ status = "halted" /\ input.name = "rel"
    /\ input.args = <<-1, "<=", 2>>
    /\ Ins("OPR", 0, LESS_EQUAL) \in Range(code)
    /\ out = <<1>>

-----------------------------------------------------------------------------
(* C11: WRITE leaves its operand on the stack *)

-----------------------------------------------------------------------------
(* C12: parameters *)

\* the run is of the tree of PARAMETERS, given to the generator
OnParameters == input.name = "parameters" /\ input.kind = "tree"

\* C12: the tree of `procedure f(a, b); write a; call f(1, 2).` compiles and
\* runs without an exception; in the callee every LOD 0 -i reads the value of
\* the i-th argument of the call, and the run prints 1, the value of a.
C12_ParametersReadArguments ==
    OnParameters =>
        /\ status \notin Errors
        /\ Running /\ Instr.op = "LOD" /\ Instr.l = 0 /\ Instr.v < 0 =>
              /\ -Instr.v \in DOMAIN ast[2].arguments
              /\ datastore[Idx(base + Instr.v)] = ast[2].arguments[-Instr.v].value
        /\ status = "halted" => out = <<1>>

-----------------------------------------------------------------------------
(* C13: DET *)

\* C13: the generator emits the call of PARAMETERS, a CAL followed by one DET
\* for each of the two arguments, and every DET the machine has executed left
\* topstack one below what it was when the DET was fetched.
C13_DetRestoresTopstack ==
    /\ OnParameters /\ status \notin {"parsed"} =>
          /\ status \notin Errors
          /\ \E pc \in DOMAIN code :
                /\ code[pc].op = "CAL"
                /\ pc + 2 \in DOMAIN code
                /\ code[pc + 1] = Ins("DET", 0, 0)
                /\ code[pc + 2] = Ins("DET", 0, 0)
    /\ status \in {"running", "halted"} /\ HasExecuted /\ Executed.op = "DET" =>
          topstack = seen[last + 1] - 1

-----------------------------------------------------------------------------
(* C14, C15: references and the declaration table *)

\* The declarations and references of a tree, in the order of the source text:
\* a declaration carries the kind the parser records for it.
RECURSIVE Events(_)
RECURSIVE EventsSeq(_, _)
EventsSeq(nodes, i) ==
    IF i > Len(nodes) THEN <<>> ELSE Events(nodes[i]) \o EventsSeq(nodes, i + 1)
Events(node) ==
    CASE node.type = "Const" -> <<[ev |-> "declare", name |-> node.name, kind |-> "CONST"]>>
      [] node.type = "Var" -> <<[ev |-> "declare", name |-> node.name, kind |-> "VAR"]>>
      [] node.type = "Procedure" ->
            <<[ev |-> "declare", name |-> node.name, kind |-> "PROC"]>>
            \o EventsSeq(node.blocks, 1)
      [] node.type = "Assignment" ->
            <<[ev |-> "assign", name |-> node.name, kind |-> "VAR"]>> \o Events(node.value)
      [] node.type = "Call" -> <<[ev |-> "call", name |-> node.name, kind |-> "PROC"]>>
      [] node.type = "Identifier" -> <<[ev |-> "use", name |-> node.name, kind |-> ""]>>
      [] node.type = "Block" -> EventsSeq(node.statements, 1)
      [] node.type \in {"If", "Loop"} -> Events(node.condition) \o Events(node.body)
      [] node.type = "Output" -> Events(node.value)
      [] node.type \in {"Odd", "Grouping"} -> Events(node.expression)
      [] node.type = "Binary" -> Events(node.left) \o Events(node.right)
      [] node.type = "Unary" -> Events(node.right)
      [] OTHER -> <<>>

\* the declarations of events[i].name before event i
Earlier(events, i) ==
    {j \in 1..(i - 1) : events[j].ev = "declare" /\ events[j].name = events[i].name}

\* Parser.parse has returned, on a source text
Parsed == input.kind = "text" /\ status # "source"
\* ... and what it returned was a list of nodes
Accepted == Parsed /\ status # "ParserError"
\* ... or it returned None after writing one diagnostic with this code
Rejected(error_code) ==
    /\ Parsed /\ status = "ParserError"
    /\ Len(stderr) = 1 /\ stderr[1].code = error_code
    /\ ast = <<>>

\* C14: when the parser has returned a tree, every Assignment target, Call
\* target and Identifier of it is preceded in the text by a declaration of the
\* same name; and a text whose first reference is to a name that no earlier
\* declaration has put into the table is rejected with error 11 and no tree.
C14_DeclaredBeforeUse ==
    /\ Accepted =>
          LET events == EventsSeq(ast, 1)
          IN  \A i \in DOMAIN events :
                  events[i].ev # "declare" => Earlier(events, i) # {}
    /\ Parsed /\ input.name = "reference" /\ input.args[1] = "None" => Rejected(11)
    /\ Parsed /\ input.name = "later" => Rejected(11)

\* C14 witness: `call x.` with no declaration of x has been rejected.
C14_Witness ==
    /\ input.name = "reference" /\ input.args = <<"None", "call">>
    /\ Rejected(11)
    /\ stderr[1].token = "PERIOD"

\* C15: when the parser has returned a tree, the last declaration before each
\* Assignment target is a variable, before each Call target a procedure and
\* before each Identifier not a procedure; an assignment to a constant or a
\* procedure is rejected with error 12, a call of a constant or a variable with
\* error 15, a procedure used as a factor with error 21, and the other
\* references to a declared name are accepted.
C15_KindOfReference ==
    /\ Accepted =>
          LET events == EventsSeq(ast, 1)
          IN  \A i \in DOMAIN events :
                  events[i].ev # "declare" =>
                      /\ Earlier(events, i) # {}
                      /\ LET kind == events[CHOOSE j \in Earlier(events, i) :
                                              \A k \in Earlier(events, i) : k <= j].kind
                         IN  IF events[i].ev = "use" THEN kind # "PROC"
                             ELSE kind = events[i].kind
    /\ Parsed /\ input.name = "reference" /\ input.args[1] # "None" =>
          CASE input.args[2] = "assign" /\ input.args[1] # "VAR" -> Rejected(12)
            [] input.args[2] = "call" /\ input.args[1] # "PROC" -> Rejected(15)
            [] input.args[2] = "use" /\ input.args[1] = "PROC" -> Rejected(21)
            [] OTHER -> Accepted
    /\ Parsed /\ input.name = "redeclared" => Rejected(12)

\* C15 witness: `const x = 1; x := 1.` has been rejected at the x.
C15_Witness ==
    /\ input.name = "reference" /\ input.args = <<"CONST", "assign">>
    /\ Rejected(12)
    /\ stderr[1].token = "IDENT"

-----------------------------------------------------------------------------
(* C16: the scope chain of the generator *)

\* C16: on the tree of a text that the parser accepts, Generator.generate_code
\* never fails to find a name in its scope chain, nor finds a binding without
\* the level and offset of a variable or the address of a procedure where it
\* needs one: no run on such a tree ends with KeyError.
C16_BindingsFound == input.kind = "tree" => status # "KeyError"

-----------------------------------------------------------------------------
(* C17: Parser.parse returns the tree or reports the first error *)

\* The characters the lexer had read when Parser.parse stopped.
read_text(text) ==
    LET read(r) == SubSeq(strip(text), 1, r.ps.lexer.cursor + 1)
    IN  read(parse_program(Parser(text)))

-----------------------------------------------------------------------------
(* C18: parameter and argument lists in the tree *)

\* Every Procedure node below carries a `parameters` field and every Call node
\* an `arguments` field.
RECURSIVE HasLists(_)
HasLists(node) ==
    CASE node.type = "Procedure" ->
            /\ "parameters" \in DOMAIN node
            /\ \A i \in 1..Len(node.blocks) : HasLists(node.blocks[i])
      [] node.type = "Call" -> "arguments" \in DOMAIN node
      [] node.type = "Block" ->
            \A i \in 1..Len(node.statements) : HasLists(node.statements[i])
      [] node.type \in {"If", "Loop"} -> HasLists(node.body)
      [] OTHER -> TRUE

\* C18: the tree Parser.parse returns records the lists: every Procedure node
\* has `parameters` and every Call node `arguments` (empty when no list is
\* written), and `procedure f(a, b); write a; call f(1, 2).` is accepted with
\* the Var nodes a, b and the Number nodes 1, 2 in source order.
C18_ListsRecorded ==
    /\ Accepted => \A i \in 1..Len(ast) : HasLists(ast[i])
    /\ Parsed /\ input.name = "parameters" => Accepted /\ ast = PARAMETERS_TREE

-----------------------------------------------------------------------------
(* C19: the operator of a condition *)

\* The node Parser.factor returns for the text Operand(x)
OperandNode(x) ==
    IF x >= 0 THEN [type |-> "Number", value |-> x]
    ELSE [type |-> "Grouping",
          expression |-> [type |-> "Binary", left |-> [type |-> "Number", value |-> 0],
                          right |-> [type |-> "Number", value |-> -x],
                          operator |-> "MINUS"]]

\* C19: a condition that does not start with odd and whose first expression is
\* followed by a token other than EQL, NEQ, LESS, LEQ, GTR, GEQ stops the parse
\* with error 20 at that token, whatever the token is (unknown character, other
\* punctuation, keyword, number, undeclared identifier) and nothing else is
\* reported; `4 ~ 3` given to condition directly fails with 20 too.  With one of
\* the six operators the condition is the Binary node of that operator with
\* the two operand expressions as left and right.
C19_ConditionOperator ==
    /\ Parsed /\ input.name = "condition" =>
          Rejected(20) /\ stderr[1].token = input.args[3]
    /\ condition(Parser("4 ~ 3")).ps.err = 20
    /\ Parsed /\ input.name = "rel" =>
          /\ Accepted
          /\ ast = <<[type |-> "If",
                      condition |->
                          [type |-> "Binary", left |-> OperandNode(input.args[1]),
                           right |-> OperandNode(input.args[3]),
                           operator |-> CASE input.args[2] = "=" -> "EQL"
                                          [] input.args[2] = "!=" -> "NEQ"
                                          [] input.args[2] = "<" -> "LESS"
                                          [] input.args[2] = "<=" -> "LEQ"
                                          [] input.args[2] = ">" -> "GTR"
                                          [] input.args[2] = ">=" -> "GEQ"],
                      body |-> [type |-> "Output",
                                value |-> [type |-> "Number", value |-> 1]]]>>

\* `if 4 * 2 - 1 ~ 3 then write 1.` was parsed and rejected with error 20 at
\* the NULL token of `~`.
C19_Witness ==
    /\ input.name = "condition" /\ input.args = <<"4 * 2 - 1", "~", "NULL">>
    /\ Rejected(20) /\ stderr[1].token = "NULL" /\ stderr[1].column = 14

-----------------------------------------------------------------------------
(* C20: the lexer alone, as tests/test_parser.py drives it *)

\* The texts given to Lexer(...): every text of at most MaxLen characters of
\* the alphabet (a letter, a digit, a blank, a newline, the characters of the
\* two-character tokens, an unknown character).
MaxLen == 3
\* How many calls are made after the cursor has passed the end.
MaxPast == 3
Alphabet == {"a", "1", " ", "\n", ":", "<", "=", "~"}
RECURSIVE Texts(_)
Texts(n) ==
    IF n = 0 THEN {""}
    ELSE Texts(n - 1) \cup {t \o c : t \in Texts(n - 1), c \in Alphabet}

LexInit ==
    /\ input \in {TextInput("lexer", text, <<>>) : text \in Texts(MaxLen)}
    /\ lexer = Lexer(input.text)
    /\ invoked = ""
    /\ returned = None
    /\ status = "source"
    /\ ast = <<>> /\ code = <<>> /\ program = 0 /\ base = 0 /\ topstack = -1
    /\ datastore = ZeroStore /\ debug = FALSE /\ out = <<>> /\ stderr = <<>>
    /\ last = -1 /\ frames = <<>> /\ stored = NoStored /\ meta = <<>>
    /\ seen = <<>> /\ written = <<>>
    /\ python = "" /\ run = 0 /\ previous = NoRun

\* lexer.get_char()
GetChar ==
    /\ lexer.cursor < Len(lexer.input) + MaxPast
    /\ LET r == get_char(lexer)
       IN  lexer' = r.lexer /\ invoked' = "get_char" /\ returned' = r.char
    /\ UNCHANGED <<input, status, ast, code, program, base, topstack, datastore, debug,
                   out, stderr, last, frames, stored, meta, seen, written>>
    /\ UNCHANGED auxvars

\* lexer.get_token()
GetToken ==
    /\ lexer.cursor < Len(lexer.input) + MaxPast
    /\ LET r == lexer_get_token(lexer)
       IN  lexer' = r.lexer /\ invoked' = "get_token" /\ returned' = r.token
    /\ UNCHANGED <<input, status, ast, code, program, base, topstack, datastore, debug,
                   out, stderr, last, frames, stored, meta, seen, written>>
    /\ UNCHANGED auxvars

LexNext == GetChar \/ GetToken
LexSpec == LexInit /\ [][LexNext]_vars

\* Only blanks, tabs and newlines are left behind the cursor (or nothing).
Exhausted(lx) ==
    \A i \in (lx.cursor + 2)..Len(lx.input) : SubSeq(lx.input, i, i) \in whitespace

-----------------------------------------------------------------------------
(* pl0/generators/py3.py: PythonTranspiler, and pl0.transpile *)

\* The transpiler as a value: the text written so far, the stack of scopes
\* (name and the names assigned or declared in it), the depth of indentation
\* and the exception raised ("" when none).
PythonTranspiler ==
    [output |-> "", scope |-> <<[name |-> "global", vars |-> <<>>]>>, depth |-> 0,
     err |-> ""]

\* PythonTranspiler.output
output(t, text) == [t EXCEPT !.output = @ \o text]

\* PythonTranspiler.indent: INDENT * depth
RECURSIVE INDENT(_)
INDENT(depth) == IF depth = 0 THEN "" ELSE "    " \o INDENT(depth - 1)
indent(t) == output(t, INDENT(t.depth))

\* the binary operators with LEQ written as <=
py3_operator_leq(operator) ==
    CASE operator = "PLUS" -> " + "
      [] operator = "MINUS" -> " - "
      [] operator = "TIMES" -> " * "
      [] operator = "SLASH" -> " // "
      [] operator = "EQL" -> " == "
      [] operator = "NEQ" -> " != "
      [] operator = "LESS" -> " < "
      [] operator = "GEQ" -> " >= "
      [] operator = "GTR" -> " > "
      [] operator = "LEQ" -> " <= "
      [] OTHER -> ""
\* the binary operators as visit_binary writes them
py3_operator(operator) ==
    CASE operator = "PLUS" -> " + "
      [] operator = "MINUS" -> " - "
      [] operator = "TIMES" -> " * "
      [] operator = "SLASH" -> " // "
      [] operator = "EQL" -> " == "
      [] operator = "NEQ" -> " != "
      [] operator = "LESS" -> " < "
      [] operator = "GEQ" -> " >= "
      [] operator = "GTR" -> " > "
      [] operator = "LEQ" -> " >= "
      [] OTHER -> ""

\* Visitor.visit for the transpiler, and the loop over a list of nodes
RECURSIVE py3_visit(_, _), py3_visit_all(_, _, _)
py3_visit_all(nodes, i, t) ==
    IF i > Len(nodes) \/ t.err # "" THEN t
    ELSE py3_visit_all(nodes, i + 1, py3_visit(nodes[i], t))
py3_visit(node, t) ==
    LET nested(u, body) == [py3_visit(body, [u EXCEPT !.depth = @ + 1])
                               EXCEPT !.depth = u.depth]
        top == t.scope[Len(t.scope)]
    IN
    IF t.err # "" THEN t
    ELSE CASE node.type = "Const" ->
                output(indent(t), node.name \o " = " \o str(node.value) \o "\n")
           [] node.type = "Var" ->
                [output(indent(t), node.name \o " = None\n")
                    EXCEPT !.scope[Len(t.scope)].vars = Append(@, node.name)]
           [] node.type = "Procedure" ->
                LET entered == output(indent(t), "\ndef " \o node.name \o "():\n")
                    inside == [entered EXCEPT
                                  !.scope = Append(@, [name |-> node.name, vars |-> <<>>]),
                                  !.depth = @ + 1]
                    done == py3_visit_all(node.blocks, 1, inside)
                IN  IF done.err # "" THEN done
                    ELSE output([done EXCEPT !.depth = @ - 1,
                                             !.scope = SubSeq(@, 1, Len(@) - 1)], "\n")
           [] node.type = "Assignment" ->
                LET declared ==
                        IF \E i \in 1..Len(top.vars) : top.vars[i] = node.name THEN t
                        ELSE [output(indent(t), "global " \o node.name \o "\n")
                                 EXCEPT !.scope[Len(t.scope)].vars = Append(@, node.name)]
                    value == py3_visit(node.value,
                                       output(indent(declared), node.name \o " = "))
                IN  IF value.err # "" THEN value ELSE output(value, "\n")
           [] node.type = "Call" -> output(indent(t), node.name \o "()\n")
           [] node.type = "Block" -> py3_visit_all(node.statements, 1, t)
           [] node.type \in {"If", "Loop"} ->
                LET head == py3_visit(node.condition,
                               output(indent(t), IF node.type = "If" THEN "if "
                                                                     ELSE "while "))
                IN  IF head.err # "" THEN head
                    ELSE nested(output(head, ":\n"), node.body)
           [] node.type = "Output" ->
                LET value == py3_visit(node.value, output(indent(t), "print("))
                IN  IF value.err # "" THEN value ELSE output(value, ")\n")
           [] node.type = "Debug" -> output(indent(t), "breakpoint()\n")
           [] node.type = "Odd" ->
                LET e == py3_visit(node.expression, t)
                IN  IF e.err # "" THEN e ELSE output(e, " % 2 == 1")
           [] node.type = "Binary" ->
                LET left == py3_visit(node.left, t)
                IN  IF left.err # "" THEN left
                    ELSE py3_visit(node.right, output(left, py3_operator(node.operator)))
           [] node.type = "Unary" -> py3_visit(node.right, output(t, "-"))
           [] node.type = "Identifier" -> output(t, node.name)
           [] node.type = "Number" -> output(t, str(node.value))
           [] node.type = "Grouping" ->
                LET e == py3_visit(node.expression, output(t, "("))
                IN  IF e.err # "" THEN e ELSE output(e, ")")
           [] OTHER -> [t EXCEPT !.err = "TypeError"]

\* PythonTranspiler.generate_code
py3_generate_code(nodes) == py3_visit_all(nodes, 1, PythonTranspiler)

\* pl0.transpile(code, "python") after Parser.parse has returned: the text of
\* the tree, or TypeError when parse returned None (`for node in None`).
Transpile ==
    /\ status \in {"parsed", "ParserError"}
    /\ LET t == py3_generate_code(ast)
       IN  IF status = "ParserError" THEN status' = "TypeError" /\ python' = python
           ELSE /\ status' = IF t.err # "" THEN t.err ELSE "transpiled"
                /\ python' = IF t.err # "" THEN python ELSE t.output
    /\ UNCHANGED <<input, ast, code, program, base, topstack, datastore, debug, out,
                   stderr, last, frames, stored, meta, seen, written, run, previous>>
    /\ UNCHANGED lexvars

\* if odd x then write 1
OddInput(x) ==
    TextInput("odd", "if odd " \o Operand(x) \o " then write 1.", <<x>>)

\* The texts given to pl0.transpile: every source text of Inputs and the odd
\* conditions.
PyInit ==
    /\ input \in {i \in Inputs : i.kind = "text"}
                 \cup {OddInput(x) : x \in (-MaxConst)..MaxConst}
    /\ status = "source"
    /\ ast = <<>> /\ code = <<>> /\ program = 0 /\ base = 0 /\ topstack = -1
    /\ datastore = ZeroStore /\ debug = FALSE /\ out = <<>> /\ stderr = <<>>
    /\ lexer = Lexer(input.text) /\ invoked = "" /\ returned = None
    /\ last = -1 /\ frames = <<>> /\ stored = NoStored /\ meta = <<>>
    /\ seen = <<>> /\ written = <<>>
    /\ python = "" /\ run = 0 /\ previous = NoRun

PyNext == Parse \/ Transpile
PySpec == PyInit /\ [][PyNext]_vars

-----------------------------------------------------------------------------
(* C21: the operators of the transpiler *)

\* C21: for `write x OP y.` the transpiler returns print(x OP' y) and for
\* `if x OP y then write 1.` it returns `if x OP' y:` with print(1) indented
\* below, where OP' is + for +, - for -, * for *, // for /, == for =, != for
\* !=, < for <, > for >, >= for >= and also >= for <=; for `if odd x then
\* write 1.` the condition is written x % 2 == 1.
C21_Operators ==
    LET written_as(op) ==
            CASE op = "+" -> " + " [] op = "-" -> " - " [] op = "*" -> " * "
              [] op = "/" -> " // " [] op = "=" -> " == " [] op = "!=" -> " != "
              [] op = "<" -> " < " [] op = ">" -> " > " [] op = ">=" -> " >= "
              [] op = "<=" -> " >= "
    IN  status = "transpiled" =>
          /\ input.name = "arith" =>
                python = "print(" \o Operand(input.args[1]) \o written_as(input.args[2])
                         \o Operand(input.args[3]) \o ")\n"
          /\ input.name = "rel" =>
                python = "if " \o Operand(input.args[1]) \o written_as(input.args[2])
                         \o Operand(input.args[3]) \o ":\n    print(1)\n"
          /\ input.name = "odd" =>
                python = "if " \o Operand(input.args[1]) \o " % 2 == 1:\n    print(1)\n"

\* `if 1 <= 2 then write 1.` was transpiled, to a test of 1 >= 2.
C21_Witness ==
    /\ input.name = "rel" /\ input.args = <<1, "<=", 2>>
    /\ status = "transpiled"
    /\ python = "if 1 >= 2:\n    print(1)\n"

-----------------------------------------------------------------------------
(* C22: one JMP and at most one INT per scope *)

\* generate_code has returned an instruction array for the tree in ast
Generated == Compiled /\ status \notin {"source", "parsed"} /\ code # <<>>

\* The scopes of a tree in the order in which their JMP is emitted (the program,
\* then every procedure where its declaration stands), read off the tree: how
\* many names of the scope are variables when its statement is reached (the
\* last declaration of a name counts; parameters are declared first, a nested
\* procedure declares its name) and whether the scope has a statement.
RECURSIVE ScopesOf(_, _), NestedScopes(_, _)
NestedScopes(nodes, i) ==
    IF i > Len(nodes) THEN <<>>
    ELSE (IF nodes[i].type = "Procedure"
          THEN ScopesOf(nodes[i].blocks,
                        IF "parameters" \in DOMAIN nodes[i] THEN nodes[i].parameters
                        ELSE <<>>)
          ELSE <<>>) \o NestedScopes(nodes, i + 1)
ScopesOf(nodes, parameters) ==
    LET declared == parameters
                    \o SelectSeq(nodes, LAMBDA n : n.type \in {"Const", "Var", "Procedure"})
        final(name) ==
            declared[CHOOSE i \in DOMAIN declared :
                        /\ declared[i].name = name
                        /\ \A j \in DOMAIN declared : declared[j].name = name => j <= i].type
        names == {declared[i].name : i \in DOMAIN declared}
    IN  <<[variables |-> Cardinality({n \in names : final(n) = "Var"}),
           statement |-> \E i \in DOMAIN nodes : should_fixup(nodes[i])]>>
        \o NestedScopes(nodes, 1)

\* The index of the JMP of the k-th scope: 0 for the program, then the JMPs
\* of the procedures in ascending order.
ScopeJmp(k) ==
    IF k = 1 THEN 0
    ELSE CHOOSE j \in {meta[i].jmp : i \in DOMAIN meta} :
            Cardinality({i \in DOMAIN meta : meta[i].jmp < j}) = k - 2

\* The k-th scope's JMP points at an INT with the operand of the scope, and
\* that INT stands where the statement of the scope begins: right behind the
\* JMP or behind the RETURN of the last nested procedure.
Patched(k, scope) ==
    LET a == code[ScopeJmp(k) + 1].v
    IN  /\ ScopeJmp(k) < a /\ a < Len(code)
        /\ code[a + 1] = Ins("INT", 0, scope.variables + 3)
        /\ a = ScopeJmp(k) + 1 \/ code[a] = Ins("OPR", 0, RETURN)

\* C22 as stated: the JMP of every scope is patched to the INT of the scope.
C22_EveryScopePatched ==
    Generated =>
       \A k \in 1..Len(ScopesOf(ast, <<>>)) : Patched(k, ScopesOf(ast, <<>>)[k])

\* C22, amended: the array starts with a JMP and ends with OPR 0 RETURN; there
\* is one scope JMP per scope of the tree; the JMP of a scope that has a
\* statement points at INT 0 (variables of the scope + 3), emitted where that
\* statement begins, and no other INT exists (as many INT as scopes with a
\* statement, so none is emitted twice and the statements inside a begin..end
\* emit none); the JMP of a scope without a statement keeps the operand 0.
C22_FixupOncePerScope ==
    Generated =>
       LET scopes == ScopesOf(ast, <<>>)
       IN  /\ code[1].op = "JMP" /\ code[1].l = 0
           /\ code[Len(code)] = Ins("OPR", 0, RETURN)
           /\ Len(scopes) = Len(meta) + 1
           /\ \A k \in 1..Len(scopes) :
                 IF scopes[k].statement THEN Patched(k, scopes[k])
                 ELSE code[ScopeJmp(k) + 1] = Ins("JMP", 0, 0)
           /\ Cardinality({a \in 1..Len(code) : code[a].op = "INT"})
                = Cardinality({k \in 1..Len(scopes) : scopes[k].statement})

\* SCOPE was compiled: four scopes, each with a statement and one INT.
C22_Witness ==
    /\ Generated /\ input.name = "scope" /\ Len(meta) = 3
    /\ Cardinality({a \in 1..Len(code) : code[a].op = "INT"}) = 4
    /\ \A k \in 1..4 : Patched(k, ScopesOf(ast, <<>>)[k])

-----------------------------------------------------------------------------
(* C23: the offsets of the variables of a scope *)

\* C23: in the code generate_code returns, every LOD and STO addresses a slot
\* of the frame its scope allocates: the operand is smaller than the operand
\* of the INT of the scope that the level of the instruction leads to.
C23_OffsetsBelowInt ==
    Generated =>
       \A pc \in 0..(Len(code) - 1) :
          code[pc + 1].op \in {"LOD", "STO"} =>
             code[pc + 1].v < IntOperand(Ancestor(ProcAt(pc), code[pc + 1].l))

-----------------------------------------------------------------------------
(* C24: calls *)

\* the inputs in which every Call names a procedure visible at the call site
\* and passes no argument
VisibleCalls == {"scope", "countdown", "runaway", "enclosing"}

\* the procedures whose first instruction is the INT at index a
Callees(a) == {i \in DOMAIN meta : code[meta[i].jmp + 1].v = a}

\* C24: generate_code compiles a tree in which every Call names a visible
\* procedure, and every CAL of the code carries the index of the INT of one
\* procedure, declared as many levels out as the CAL says, counted from the
\* scope that holds the call.
C24_CallsCompiled ==
    (input.kind = "tree" /\ input.name \in VisibleCalls
                         /\ status \notin {"source", "parsed"}) =>
       /\ Generated
       /\ \A pc \in 0..(Len(code) - 1) :
             code[pc + 1].op = "CAL" =>
                /\ code[pc + 1].v < Len(code)
                /\ code[code[pc + 1].v + 1].op = "INT"
                /\ \E i \in Callees(code[pc + 1].v) :
                      code[pc + 1].l = ProcAt(pc).level - (meta[i].level - 1)

-----------------------------------------------------------------------------
(* C25: the jumps of if and while *)

\* how many nodes of the given type the tree below node holds
RECURSIVE CountNodes(_, _), CountAll(_, _, _)
CountAll(nodes, i, type) ==
    IF i > Len(nodes) THEN 0
    ELSE CountNodes(nodes[i], type) + CountAll(nodes, i + 1, type)
CountNodes(node, type) ==
    (IF node.type = type THEN 1 ELSE 0)
    + (CASE node.type = "Procedure" -> CountAll(node.blocks, 1, type)
         [] node.type = "Block" -> CountAll(node.statements, 1, type)
         [] node.type \in {"If", "Loop"} -> CountNodes(node.body, type)
         [] OTHER -> 0)

\* the instructions with the given opcode
At(op) == {pc \in 0..(Len(code) - 1) : code[pc + 1].op = op}

\* the JPC at j belongs to a while: the instruction before its target is a JMP
\* back to the first instruction of the condition that ends before j
ClosesLoop(j) ==
    /\ code[code[j + 1].v] = Ins("JMP", 0, ExpressionStart(j - 1))
    /\ ExpressionStart(j - 1) < j

\* C25: in the code generate_code returns, every JMP and JPC targets an index
\* inside the array; every JPC jumps forward, past its body; there is one JPC
\* per If and Loop node, and one per Loop node has in front of its target the
\* JMP back to the first instruction of its condition; every JMP is such a
\* JMP or the JMP of a scope.  At run time a JPC goes to its target when the
\* condition left 0 and to the body otherwise, and the JMP goes back to the
\* condition, so the body runs once per non-zero condition: the counting loop
\* prints 1 and 3, the LOOP program 2.
C25_Jumps ==
    /\ Generated =>
          /\ \A pc \in At("JMP") \cup At("JPC") : code[pc + 1].v < Len(code)
          /\ \A j \in At("JPC") : j < code[j + 1].v
          /\ Cardinality(At("JPC"))
                = CountAll(ast, 1, "If") + CountAll(ast, 1, "Loop")
          /\ Cardinality({j \in At("JPC") : ClosesLoop(j)}) = CountAll(ast, 1, "Loop")
          /\ Cardinality(At("JMP")) = 1 + Len(meta) + CountAll(ast, 1, "Loop")
    /\ (Compiled /\ status \in {"running", "halted"} /\ HasExecuted) =>
          /\ Executed.op = "JPC" =>
                program = IF datastore[topstack + 1] = 0 THEN Executed.v ELSE last + 1
          /\ Executed.op = "JMP" => program = Executed.v
    /\ (input.name = "counting" /\ status = "halted") => out = <<1, 3>>
    /\ (input.name = "loop" /\ status = "halted") => out = <<2>>

\* the counting loop has printed 1 and 3 and its condition has just left 0:
\* the JPC leaves the loop for the instruction behind the trailing JMP
C25_Witness ==
    /\ input.name = "counting" /\ status = "running" /\ HasExecuted
    /\ Executed.op = "JPC" /\ ClosesLoop(last)
    /\ program = Executed.v /\ datastore[topstack + 1] = 0
    /\ out = <<1, 3>>

-----------------------------------------------------------------------------
(* C26: the links of a frame *)

\* the slots that hold the SL, DL and RA of the live frames
LinkSlots ==
    {0, 1, 2} \cup {frames[i].base + k : i \in DOMAIN frames, k \in 0..2}

\* C26: in a compiled run, an OPR RETURN about to execute finds in
\* datastore[base + 1] the base that was current at the matching CAL and in
\* datastore[base + 2] the index of the instruction after that CAL (0 and 0
\* in the global frame), and a STO about to execute does not address the SL,
\* DL or RA slot of a live frame.
C26_LinksKept ==
    /\ (Compiled /\ Running /\ Instr = Ins("OPR", 0, RETURN)) =>
          /\ datastore[base + 1] = IF frames = <<>> THEN 0 ELSE frames[Len(frames)].caller
          /\ datastore[base + 2] = IF frames = <<>> THEN 0 ELSE frames[Len(frames)].ret
    /\ (Compiled /\ Running /\ Instr.op = "STO") =>
          find_base(Machine, Instr.l).base + Instr.v \notin LinkSlots

-----------------------------------------------------------------------------
(* C27: what interpret resets *)

\* C27: every call of interpret, the first and the later ones, starts its loop
\* with topstack = -1, base = 0, program = 0 and zeros in datastore[0..2],
\* and no step from the first call of interpret on changes the code.
C27_InterpretResets ==
    [][/\ run' = run + 1 =>
             /\ status' = "running"
             /\ topstack' = -1 /\ base' = 0 /\ program' = 0
             /\ datastore'[0] = 0 /\ datastore'[1] = 0 /\ datastore'[2] = 0
       /\ run' >= 1 => code' = code]_vars

\* the second call on a VM whose first run ended in IndexError deep in a
\* recursion: the loop starts from the reset registers while the frames of the
\* first run are still in the datastore
C27_Witness ==
    /\ run = 2 /\ status = "running" /\ last = -1
    /\ previous.status = "IndexError"
    /\ topstack = -1 /\ base = 0 /\ program = 0
    /\ \E i \in 3..(StackSize - 1) : datastore[i] # 0

-----------------------------------------------------------------------------
(* C28: two runs on one VM *)

\* C28: when interpret has run a compiled program twice on the same VM and
\* both runs halted, the second run has written what the first wrote.
C28_SameOutput ==
    (Compiled /\ run = 2 /\ status = "halted" /\ previous.status = "halted") =>
       out = previous.out

-----------------------------------------------------------------------------
(* C29: statements leave the stack as they found it *)

\* A statement has just ended or is about to begin: the instruction executed
\* last ends an assignment (STO), a write, a debug or a call (the RETURN of the
\* callee), or it is the INT of the scope, the JPC in front of a body or the
\* JMP that ends a while body.
Boundary ==
    /\ status = "running" /\ HasExecuted /\ HasInstr
    /\ \/ Executed.op \in {"STO", "INT", "JPC"}
       \/ Executed.op = "OPR" /\ Executed.v \in {WRITE, DEBUG, RETURN}
       \/ Executed.op = "JMP" /\ Executed.v <= last

\* the words OPR WRITE left in the current activation
WritesHere == Cardinality({i \in DOMAIN written : written[i].base = base})

-----------------------------------------------------------------------------
(* C30: termination *)

\* procedure p (the JMP index of its scope, 0 for the program) holds a CAL of
\* procedure q
CallsDirectly(p, q) ==
    \E pc \in At("CAL") :
       /\ ProcAt(pc).jmp = p
       /\ \E i \in Callees(code[pc + 1].v) : meta[i].jmp = q

RECURSIVE CallsWithin(_, _, _)
CallsWithin(p, q, n) ==
    \/ CallsDirectly(p, q)
    \/ n > 1 /\ \E i \in DOMAIN meta :
                   CallsDirectly(p, meta[i].jmp) /\ CallsWithin(meta[i].jmp, q, n - 1)

\* the program has no while loop and no procedure that can call itself,
\* directly or through others
Straight ==
    /\ CountAll(ast, 1, "Loop") = 0
    /\ \A i \in DOMAIN meta : ~CallsWithin(meta[i].jmp, meta[i].jmp, Len(meta))

RuntimeErrors == {"IndexError", "ZeroDivisionError"}

\* C30: interpret, called on the code of a program without while loop and
\* without recursive call chain, stops: it reaches program = 0 or a fatal
\* error ends the run.
C30_Terminates ==
    (Compiled /\ status = "generated" /\ Straight)
       ~> (status \in {"halted"} \cup RuntimeErrors)

====
